---- MODULE Spec2Model ----
(***************************************************************************)
(* A model of farm_iot's concurrency substrate: the RTU port registry      *)
(* (base/gateway), the Modbus sensor read loops and their port locks       *)
(* (base/sensor/modbus.py), the Worker/Manager reporting protocol          *)
(* (base/manage) and the export fan-out (base/export, base/sensor).        *)
(*                                                                         *)
(* asyncio is single-threaded and cooperative: one action of the model is  *)
(* everything a task does from one suspension point (an await that really  *)
(* yields) to the next.                                                    *)
(***************************************************************************)
EXTENDS Integers, Sequences, FiniteSets, TLC

None == "None"
\* None where the other values are object ids (dict.get on a missing key).
NoneId == 0

(***************************************************************************)
(* Bounds of the model.                                                    *)
(***************************************************************************)
NumSensors == 2
BatchLen == 1
MaxTries == 2
MaxCalls == 3
NumExporters == 2
NumPipelines == 2
MaxFilters == 2
MaxRows == 2
MaxLength == 3
MaxFed == 5
MaxBatchRows == 3

Sensors == 1 .. NumSensors
\* The registers of a sensor, by function code (test/base/sensor/modbus.py
\* reads "temp" with code 3 and "humidity" with code 4).
Registers == <<3, 4>>
NumRegisters == Len(Registers)
Callers == {"a", "b"}

(***************************************************************************)
(* Port names.  str.upper() on the names the model uses.                   *)
(***************************************************************************)
RawPorts == {"COM3", "com3", "COM5"}
Ports == {"COM3", "COM5"}
TCPHosts == {"10.0.0.1"}

Upper(port) ==
    CASE port = "com3" -> "COM3"
      [] port = "com5" -> "COM5"
      [] OTHER -> port

MaxObjects == MaxCalls
TCPLockId == MaxObjects + 1
LockIds == 1 .. TCPLockId

VARIABLES
    connections,   \* ModbusRTUGatewayManager.__connections: port -> client | None
    locks,         \* ModbusRTUGatewayManager.__locks: port -> lock | None
    clientHost,    \* client.comm_params.host of every client created so far, by id
    nLocks,        \* number of asyncio.Lock objects created so far
    crPc,          \* create_connection callers: "idle" | "connecting"
    crPort,        \* settings.PORT of the call in progress
    crClient,      \* the client the call in progress has created
    crConnected,   \* what the caller's last `await client.connect()` returned
    crOutcome,     \* how the caller's last call ended
    crCalls,       \* create_connection calls made so far
    glOutcome,     \* outcome of the last get_lock / get_connection query
    link,          \* the physical link (RTU port or TCP host) of each sensor
    client,        \* self._CLIENT of each sensor
    pc,            \* where each sensor's read-loop task is suspended
    row,           \* i of `for i in range(self._LENGTH_OF_A_BATCH)`
    reg,           \* index of the register being read
    curLock,       \* the lock the sensor's current read uses
    tries,         \* exchanges made since the lock was last taken
    cancelReq,     \* Task.cancel() was called and not yet delivered
    diedAt,        \* the pc at which a terminated task's exception was raised
    lockState,     \* every lock: [locked |-> _locked, waiters |-> _waiters,
                   \*   owner |-> the task that set _locked (history)]
    wManager,      \* Worker.__manager of each worker ("unset": no attribute)
    lastSet,       \* argument of the last set_manager call on each worker
    lastMgrSet,    \* the last Manager passed to set_manager on each worker
    lastCall,      \* the last set_manager / notify_manager call and its end
    fMgr,          \* the manager of the sensor whose fan-out is modelled
    tpc,           \* where each task of the fan-out is suspended
    ready,         \* the event loop's queue of tasks ready to run (FIFO)
    mustCancel,    \* Task.cancel() reached the task, CancelledError is due
    started,       \* times each export()/run() body began in this fan-out
    handled,       \* manager.handle calls each notifier made in this fan-out
    nextResult,    \* index of the next result notify_* will look at
    gResult,       \* the gather of read_and_process: "pending" | "ok" |
                   \*   "error" | "cancelled"
    plFilters,     \* Pipeline.__filters: the filters, in the order added
    plPc,          \* Pipeline.run: "idle" | "process" | "notify" |
                   \*   "returned" | "raised"
    plIdx,         \* the filter the `for filter in self.__filters` is at
    plInput,       \* the batch the current run was called with
    plData,        \* `data` of the current run
    plProcessed,   \* process() calls on each filter in the current run
    plNotified,    \* the batches each filter's notify_exporters was given
    plRaisedAt,    \* the filter whose process() raised in this run, else 0
    plOutcome,      \* how the last run ended: what it returned or raised
    rdKind,        \* the sensor read alone: "RTU" | "TCP"
    rdMgr,         \* its manager
    rdPc,          \* where its read_and_process is suspended
    rdRow,         \* i of `for i in range(self._LENGTH_OF_A_BATCH)`
    rdReg,         \* index of the register being read
    rdTries,       \* exchanges made for the register being read
    rdCols,        \* len of every list of self._data (0: "Timestamp")
    rdExch,        \* register exchanges made in this call
    rdReports,     \* manager.handle calls made in this call
    rdHanded,      \* batches handed to the fan-out in this call
    rdBatch,       \* the column lengths of the last batch handed
    rdFailedAt,    \* rdExch when an exchange of this call raised, else 0
    rdErrVals,     \* exception objects read as results in this call
    rdOutcome,      \* how the last call ended
    wfKind,        \* the windowed filter alone: its class
    wfLength,      \* self._MAX_LENGTH
    wfInit,        \* self._data is not None
    wfData,        \* self._data: the deque of each column, oldest first
    wfPushed,      \* every value appended to each deque, in order
    wfIn,          \* the rows of every batch processed, in order
    wfOut,         \* per row processed by a moving filter: what it did
    wfRet,         \* the rows of the last batch returned
    wfBatch,       \* the rows of the last batch processed
    wfCalls,       \* process calls made
    sdKind,        \* the statistics filter alone: its class
    sdN,           \* self.__N
    sdRemove,      \* self.__REMOVE
    sdIn,          \* the batch given to a batch filter's process
    sdOut,         \* what that process returned
    sdCalls,       \* process calls made on the batch filter
    acMax,         \* the Accumulate filter alone: self.__MAX_LENGTH
    acOld,         \* self.__old: the pending rows
    acBefore,      \* the pending rows when the last process call began
    acIn,          \* the batch of the last process call
    acRet,         \* the batch that call returned
    acCase,        \* the branch that call took
    acShared,      \* the returned batch is the object self.__old
    acFed,         \* rows given to process so far
    acCalls,       \* process calls made
    \* A BatchConsumptionFilter on one value column.
    bcFront,        \* __FRONT
    bcTail,         \* __TAIL
    bcUseDifference, \* __use_difference
    bcUseTime,      \* __use_time
    bcMultiple,     \* __DIFFERENCE_MULTIPLE
    bcColumns,      \* len(self._data): the columns of the first batch
    bcStatus,       \* "new", "ready", or how the first call left the filter
    bcData,         \* _data[key]: the window of values
    bcDatetime,     \* __data_datetime[key]: the window of timestamps
    bcRemain,       \* twice __remain[key]
    bcLowest,       \* twice __lowest_record[key]
    bcLastExport,   \* __last_export_datetime[key]: {} is None
    bcNow,          \* the timestamp of the last row given to the filter
    bcTrace,        \* what the last call did at each non-null sample
    bcOutcome,      \* "none", "returned" or "raised"
    bcCalls,        \* calls made
    \* One call of BatchConsumptionFilter.process on a frame of two value columns.
    cfBatch,        \* the rows <<timestamp, cell, cell>> of the frame
    cfEmitted,      \* what the columns emitted: <<column, timestamp, consumed>>
    cfOut,          \* the rows of the returned frame
    cfOutcome,      \* "none", "returned" or "raised"
    \* An AutoFeederGateMQTTSensor.
    gtStatus,       \* __status
    gtAdding,       \* __adding_feed
    gtNotified,     \* batches given to the exporters and pipelines so far
    gtLog,          \* the messages received and is_adding_feed calls made
    \* The frames of one batch handed to the exporters and pipelines of a sensor.
    cpHeap,         \* the frames in memory: object -> value and who wrote into it
    cpRef,          \* the frame each pipeline holds
    cpSteps,        \* filters run by each pipeline
    cpSeen,         \* what each pipeline's last filter and each exporter was given
    cpPc,           \* "read" until the sensor notifies, then "notified"
    \* The register reads of the sensors behind one TCP host.
    tcDevice,       \* each sensor's device: "answers" | "refuses"
    tcPc,           \* "between" reads | "waiting" for the lock | "exchange"
    tcLock,         \* the host's lock
    tcTries,        \* answers received in the read under way, up to MaxTries
    tcReturned,     \* what the sensor's last read returned
    tcDone          \* reads completed by each sensor, up to MaxCalls

gatewayVars == <<connections, locks, clientHost, nLocks, crPc, crPort,
                 crClient, crConnected, crOutcome, crCalls, glOutcome>>
sensorVars == <<link, client, pc, row, reg, curLock, tries, cancelReq,
                diedAt, lockState>>
workerVars == <<wManager, lastSet, lastMgrSet, lastCall>>
fanoutVars == <<fMgr, tpc, ready, mustCancel, started, handled, nextResult,
                gResult>>
pipelineVars == <<plFilters, plPc, plIdx, plInput, plData, plProcessed,
                  plNotified, plRaisedAt, plOutcome>>
readVars == <<rdKind, rdMgr, rdPc, rdRow, rdReg, rdTries, rdCols, rdExch,
              rdReports, rdHanded, rdBatch, rdFailedAt, rdErrVals,
              rdOutcome>>
windowVars == <<wfKind, wfLength, wfInit, wfData, wfPushed, wfIn, wfOut, wfRet,
                wfBatch, wfCalls>>
statsVars == <<sdKind, sdN, sdRemove, sdIn, sdOut, sdCalls>>
accumulateVars == <<acMax, acOld, acBefore, acIn, acRet, acCase, acShared,
                    acFed, acCalls>>
consumptionVars == <<bcFront, bcTail, bcUseDifference, bcUseTime, bcMultiple,
                     bcColumns, bcStatus, bcData, bcDatetime, bcRemain,
                     bcLowest, bcLastExport, bcNow, bcTrace, bcOutcome,
                     bcCalls>>
frameVars == <<cfBatch, cfEmitted, cfOut, cfOutcome>>
gateVars == <<gtStatus, gtAdding, gtNotified, gtLog>>
copyVars == <<cpHeap, cpRef, cpSteps, cpSeen, cpPc>>
tcpVars == <<tcDevice, tcPc, tcLock, tcTries, tcReturned, tcDone>>
vars == <<gatewayVars, sensorVars, workerVars, fanoutVars, pipelineVars,
          readVars, windowVars, statsVars, accumulateVars, consumptionVars,
          frameVars, gateVars, copyVars, tcpVars>>


(***************************************************************************)
(* ModbusRTUGatewayManager: the process-wide port registry.                *)
(***************************************************************************)

\* get_connection: dict.get on the upper-cased name; None when absent.
GetConnection(port) == [kind |-> "return", value |-> connections[Upper(port)]]

GetLockSubscript(port) ==
    IF locks[Upper(port)] = NoneId
    THEN [kind |-> "raise", value |-> "KeyError"]
    ELSE [kind |-> "return", value |-> locks[Upper(port)]]

\* get_lock: dict.get on the upper-cased name; None when absent.
GetLock(port) == [kind |-> "return", value |-> locks[Upper(port)]]

NeverRaisesConnectionError(connected) == FALSE

\* `if not connected: raise ConnectionError()`
RaisesConnectionError(connected) == ~connected

\* create_connection up to `await client.connect()`: the check of the
\* registry, and the new client when the port has no entry.
CreateBegin(c, p) ==
    /\ crPc[c] = "idle"
    /\ crCalls < MaxCalls
    /\ crCalls' = crCalls + 1
    /\ IF connections[Upper(p)] = NoneId
       THEN /\ clientHost' = Append(clientHost, p)
            /\ crClient' = [crClient EXCEPT ![c] = Len(clientHost) + 1]
            /\ crPort' = [crPort EXCEPT ![c] = Upper(p)]
            /\ crPc' = [crPc EXCEPT ![c] = "connecting"]
            /\ crConnected' = [crConnected EXCEPT ![c] = None]
            /\ crOutcome' = [crOutcome EXCEPT ![c] = None]
       ELSE /\ crOutcome' = [crOutcome EXCEPT ![c] = "ok"]
            /\ crConnected' = [crConnected EXCEPT ![c] = None]
            /\ UNCHANGED <<clientHost, crClient, crPort, crPc>>
    /\ UNCHANGED <<connections, locks, nLocks, glOutcome>>
    /\ UNCHANGED <<sensorVars, workerVars, fanoutVars, pipelineVars,
                   readVars, windowVars, statsVars, accumulateVars,
                   consumptionVars, frameVars, gateVars, copyVars, tcpVars>>

\* create_connection from the return of connect() to its end.
CreateFinish(c, connected) ==
    /\ crPc[c] = "connecting"
    /\ crPc' = [crPc EXCEPT ![c] = "idle"]
    /\ crConnected' = [crConnected EXCEPT ![c] = IF connected THEN "True" ELSE "False"]
    /\ IF RaisesConnectionError(connected)
       THEN /\ crOutcome' = [crOutcome EXCEPT ![c] = "ConnectionError"]
            /\ UNCHANGED <<connections, locks, nLocks>>
       ELSE /\ connections' = [connections EXCEPT ![crPort[c]] = crClient[c]]
            /\ locks' = [locks EXCEPT ![crPort[c]] = nLocks + 1]
            /\ nLocks' = nLocks + 1
            /\ crOutcome' = [crOutcome EXCEPT ![c] = "ok"]
    /\ UNCHANGED <<clientHost, crClient, crPort, crCalls, glOutcome>>
    /\ UNCHANGED <<sensorVars, workerVars, fanoutVars, pipelineVars,
                   readVars, windowVars, statsVars, accumulateVars,
                   consumptionVars, frameVars, gateVars, copyVars, tcpVars>>

\* A caller asks the registry for a lock.
GetLockCall(p) ==
    /\ glOutcome' = [op |-> "get_lock", port |-> p, out |-> GetLock(p)]
    /\ UNCHANGED <<connections, locks, clientHost, nLocks, crPc, crPort,
                   crClient, crConnected, crOutcome, crCalls>>
    /\ UNCHANGED <<sensorVars, workerVars, fanoutVars, pipelineVars,
                   readVars, windowVars, statsVars, accumulateVars,
                   consumptionVars, frameVars, gateVars, copyVars, tcpVars>>

\* A caller asks the registry for a connection.
GetConnectionCall(p) ==
    /\ glOutcome' = [op |-> "get_connection", port |-> p,
                     out |-> GetConnection(p)]
    /\ UNCHANGED <<connections, locks, clientHost, nLocks, crPc, crPort,
                   crClient, crConnected, crOutcome, crCalls>>
    /\ UNCHANGED <<sensorVars, workerVars, fanoutVars, pipelineVars,
                   readVars, windowVars, statsVars, accumulateVars,
                   consumptionVars, frameVars, gateVars, copyVars, tcpVars>>


(***************************************************************************)
(* asyncio.Lock as `async with lock` uses it.  A waiter is the future of a *)
(* task suspended in acquire(): "pending", "woken" (its result is set and  *)
(* the task has not run yet) or "cancelled" (the task was cancelled while  *)
(* waiting and has not run yet).                                           *)
(***************************************************************************)
FreeLock == [locked |-> FALSE, waiters |-> <<>>, owner |-> NoneId]

\* _wake_up_first: set the first waiter's result unless it is done.
WakeUpFirst(ws) ==
    IF ws # <<>> /\ ws[1].st = "pending"
    THEN [ws EXCEPT ![1].st = "woken"]
    ELSE ws

RemoveWaiter(ws, s) == SelectSeq(ws, LAMBDA w : w.task # s)

LkCanTakeAlways(L) == TRUE

\* The fast path of acquire(): not locked and every waiter cancelled.
LkCanTake(L) ==
    /\ ~L.locked
    /\ \A i \in DOMAIN L.waiters : L.waiters[i].st = "cancelled"

\* acquire() up to its first suspension, by task s.
LkAcquire(L, s) ==
    IF LkCanTake(L)
    THEN [L EXCEPT !.locked = TRUE, !.owner = s]
    ELSE [L EXCEPT !.waiters = Append(@, [task |-> s, st |-> "pending"])]

\* release(), as __aexit__ calls it on every way out of the block.
LkRelease(L) ==
    [locked |-> FALSE, waiters |-> WakeUpFirst(L.waiters), owner |-> NoneId]


(***************************************************************************)
(* ModbusRTUBasedSensor / ModbusTCPBasedSensor: the read loop.             *)
(*   pc: "idle"       in asyncio.sleep(WAITING_TIME) of the run loop       *)
(*       "waiting"    suspended in lock.acquire()                          *)
(*       "exchange"   inside `async with`, awaiting the client's answer    *)
(*       "report"     awaiting notify_manager, then `return None`          *)
(*       "reportCont" awaiting notify_manager, then `continue`             *)
(*       "sleepRow"   in asyncio.sleep(self._DURATION)                     *)
(*       "fanout"     awaiting gather(notify_exporters, notify_pipelines)  *)
(*       "failed"     the task ended with an exception                     *)
(*       "cancelled"  the task ended with CancelledError                   *)
(***************************************************************************)
\* The links the sensors are built on: one RTU port and one TCP host.
Links == {"COM3"} \cup TCPHosts
\* Sensors are interchangeable: Init lists their links in one order only.
LinkRank(l) == IF l \in Ports THEN 1 ELSE 2
Terminated == {"failed", "cancelled"}

IsRTU(s) == link[s] \in Ports

\* ModbusTCPGatewayManager().get_lock(host): one lock per host.
TCPGetLock(host) == TCPLockId

\* The lock a row's reads use: an RTU sensor asks the registry at every
\* row, a TCP sensor keeps the self._lock of its construction.
RowLock(s) ==
    IF IsRTU(s) THEN GetLock(clientHost[client[s]]).value ELSE curLock[s]

\* What one register read can come to once the client has answered.
\*   "ok"      a response, transformed and appended
\*   "errval"  the result is an exception object: report and `continue`
\*   "caught"  RTU: an exception inside the try: report and `return None`
\*   "retry"   TCP: an ExceptionResponse (or None): ask again
\*   "crash"   an exception nothing in read_and_process catches
Outcomes(s) ==
    IF IsRTU(s)
    THEN {"ok", "errval", "caught", "crash"}
    ELSE {"ok", "errval", "crash"}
         \cup (IF tries[s] < MaxTries THEN {"retry"} ELSE {})

ExitsLockAfterRow(s, out) ==
    IF IsRTU(s)
    THEN out # "ok" \/ reg[s] = NumRegisters
    ELSE out # "retry"

\* Whether the `async with` block is left after this answer: the RTU
\* block holds one exchange, the TCP block holds the retry loop.
ExitsLock(s, out) == IF IsRTU(s) THEN TRUE ELSE out # "retry"

\* `async with l:` and the call of the client, from lock states ls.
EnterRead(s, l, ls) ==
    IF l = NoneId
    THEN /\ lockState' = ls
         /\ tries' = [tries EXCEPT ![s] = 0]
         /\ pc' = [pc EXCEPT ![s] = IF IsRTU(s) THEN "report" ELSE "failed"]
         /\ diedAt' = IF IsRTU(s) THEN diedAt
                      ELSE [diedAt EXCEPT ![s] = "acquire"]
    ELSE /\ lockState' = [ls EXCEPT ![l] = LkAcquire(@, s)]
         /\ IF LkCanTake(ls[l])
            THEN /\ pc' = [pc EXCEPT ![s] = "exchange"]
                 /\ tries' = [tries EXCEPT ![s] = 1]
            ELSE /\ pc' = [pc EXCEPT ![s] = "waiting"]
                 /\ tries' = [tries EXCEPT ![s] = 0]
         /\ diedAt' = diedAt

\* The rest of `for register in self._registers` after one register.
NextRegister(s, ls) ==
    IF reg[s] < NumRegisters
    THEN /\ reg' = [reg EXCEPT ![s] = @ + 1]
         /\ EnterRead(s, curLock[s], ls)
    ELSE /\ reg' = reg
         /\ lockState' = ls
         /\ tries' = [tries EXCEPT ![s] = 0]
         /\ pc' = [pc EXCEPT ![s] = "sleepRow"]
         /\ diedAt' = diedAt

\* read_and_process from its call to the first suspension.
BeginBatch(s) ==
    /\ pc[s] = "idle"
    /\ ~cancelReq[s]
    /\ row' = [row EXCEPT ![s] = 1]
    /\ reg' = [reg EXCEPT ![s] = 1]
    /\ curLock' = [curLock EXCEPT ![s] = RowLock(s)]
    /\ EnterRead(s, RowLock(s), lockState)
    /\ UNCHANGED <<gatewayVars, link, client, cancelReq>>
    /\ UNCHANGED <<workerVars, fanoutVars, pipelineVars, readVars,
                   windowVars, statsVars, accumulateVars, consumptionVars,
                   frameVars, gateVars, copyVars, tcpVars>>

\* acquire() resumes with its future's result set.
LockGranted(s) ==
    /\ pc[s] = "waiting"
    /\ ~cancelReq[s]
    /\ \E i \in DOMAIN lockState[curLock[s]].waiters :
          /\ lockState[curLock[s]].waiters[i].task = s
          /\ lockState[curLock[s]].waiters[i].st = "woken"
    /\ lockState' = [lockState EXCEPT ![curLock[s]] =
          [locked |-> TRUE, waiters |-> RemoveWaiter(@.waiters, s),
           owner |-> s]]
    /\ pc' = [pc EXCEPT ![s] = "exchange"]
    /\ tries' = [tries EXCEPT ![s] = 1]
    /\ UNCHANGED <<gatewayVars, link, client, row, reg, curLock, cancelReq,
                   diedAt>>
    /\ UNCHANGED <<workerVars, fanoutVars, pipelineVars, readVars,
                   windowVars, statsVars, accumulateVars, consumptionVars,
                   frameVars, gateVars, copyVars, tcpVars>>

\* The client answers; the task runs to its next suspension.
ExchangeDone(s, out) ==
    /\ pc[s] = "exchange"
    /\ ~cancelReq[s]
    /\ out \in Outcomes(s)
    /\ IF ~ExitsLock(s, out)
       THEN /\ tries' = [tries EXCEPT ![s] = @ + 1]
            /\ reg' = IF out = "retry" THEN reg ELSE [reg EXCEPT ![s] = @ + 1]
            /\ UNCHANGED <<pc, lockState, diedAt>>
       ELSE LET ls == [lockState EXCEPT ![curLock[s]] = LkRelease(@)] IN
            IF out = "ok"
            THEN NextRegister(s, ls)
            ELSE /\ lockState' = ls
                 /\ tries' = [tries EXCEPT ![s] = 0]
                 /\ reg' = reg
                 /\ pc' = [pc EXCEPT ![s] =
                       CASE out = "errval" -> "reportCont"
                         [] out = "caught" -> "report"
                         [] OTHER -> "failed"]
                 /\ diedAt' = IF out \in {"errval", "caught"} THEN diedAt
                              ELSE [diedAt EXCEPT ![s] = "exchange"]
    /\ UNCHANGED <<gatewayVars, link, client, row, curLock, cancelReq>>
    /\ UNCHANGED <<workerVars, fanoutVars, pipelineVars, readVars,
                   windowVars, statsVars, accumulateVars, consumptionVars,
                   frameVars, gateVars, copyVars, tcpVars>>

\* notify_manager returns or raises before `return None`.
ReportDone(s, raised) ==
    /\ pc[s] = "report"
    /\ ~cancelReq[s]
    /\ pc' = [pc EXCEPT ![s] = IF raised THEN "failed" ELSE "idle"]
    /\ diedAt' = IF raised THEN [diedAt EXCEPT ![s] = "report"] ELSE diedAt
    /\ UNCHANGED <<gatewayVars, link, client, row, reg, curLock, tries,
                   cancelReq, lockState>>
    /\ UNCHANGED <<workerVars, fanoutVars, pipelineVars, readVars,
                   windowVars, statsVars, accumulateVars, consumptionVars,
                   frameVars, gateVars, copyVars, tcpVars>>

\* notify_manager returns or raises before `continue`.
ReportContDone(s, raised) ==
    /\ pc[s] = "reportCont"
    /\ ~cancelReq[s]
    /\ IF raised
       THEN /\ pc' = [pc EXCEPT ![s] = "failed"]
            /\ diedAt' = [diedAt EXCEPT ![s] = "reportCont"]
            /\ UNCHANGED <<reg, tries, lockState>>
       ELSE NextRegister(s, lockState)
    /\ UNCHANGED <<gatewayVars, link, client, row, curLock, cancelReq>>
    /\ UNCHANGED <<workerVars, fanoutVars, pipelineVars, readVars,
                   windowVars, statsVars, accumulateVars, consumptionVars,
                   frameVars, gateVars, copyVars, tcpVars>>

\* asyncio.sleep(self._DURATION) is over: the next row, or the fan-out.
RowSleepDone(s) ==
    /\ pc[s] = "sleepRow"
    /\ ~cancelReq[s]
    /\ IF row[s] < BatchLen
       THEN /\ row' = [row EXCEPT ![s] = @ + 1]
            /\ reg' = [reg EXCEPT ![s] = 1]
            /\ curLock' = [curLock EXCEPT ![s] = RowLock(s)]
            /\ EnterRead(s, RowLock(s), lockState)
       ELSE /\ pc' = [pc EXCEPT ![s] = "fanout"]
            /\ UNCHANGED <<row, reg, curLock, tries, lockState, diedAt>>
    /\ UNCHANGED <<gatewayVars, link, client, cancelReq>>
    /\ UNCHANGED <<workerVars, fanoutVars, pipelineVars, readVars,
                   windowVars, statsVars, accumulateVars, consumptionVars,
                   frameVars, gateVars, copyVars, tcpVars>>

\* gather(notify_exporters, notify_pipelines) returns or raises.
FanoutDone(s, raised) ==
    /\ pc[s] = "fanout"
    /\ ~cancelReq[s]
    /\ pc' = [pc EXCEPT ![s] = IF raised THEN "failed" ELSE "idle"]
    /\ diedAt' = IF raised THEN [diedAt EXCEPT ![s] = "fanout"] ELSE diedAt
    /\ UNCHANGED <<gatewayVars, link, client, row, reg, curLock, tries,
                   cancelReq, lockState>>
    /\ UNCHANGED <<workerVars, fanoutVars, pipelineVars, readVars,
                   windowVars, statsVars, accumulateVars, consumptionVars,
                   frameVars, gateVars, copyVars, tcpVars>>

\* Task.cancel() on the sensor's read-loop task: a pending future the
\* task waits on is cancelled; the task itself runs later.
Cancel(s) ==
    /\ pc[s] \notin Terminated
    /\ ~cancelReq[s]
    /\ cancelReq' = [cancelReq EXCEPT ![s] = TRUE]
    /\ lockState' =
          IF pc[s] = "waiting"
          THEN [lockState EXCEPT ![curLock[s]].waiters =
                  [i \in DOMAIN @ |->
                     IF @[i].task = s /\ @[i].st = "pending"
                     THEN [@[i] EXCEPT !.st = "cancelled"]
                     ELSE @[i]]]
          ELSE lockState
    /\ UNCHANGED <<gatewayVars, link, client, pc, row, reg, curLock, tries,
                   diedAt>>
    /\ UNCHANGED <<workerVars, fanoutVars, pipelineVars, readVars,
                   windowVars, statsVars, accumulateVars, consumptionVars,
                   frameVars, gateVars, copyVars, tcpVars>>

CancelUnwindKeepsLock(s) == lockState

\* The locks after CancelledError has left the task's frames: acquire()
\* removes its waiter and passes the wake-up on, `async with` releases.
CancelUnwind(s) ==
    CASE pc[s] = "waiting" ->
           LET L == lockState[curLock[s]]
               ws == RemoveWaiter(L.waiters, s)
           IN [lockState EXCEPT ![curLock[s]].waiters =
                 IF L.locked THEN ws ELSE WakeUpFirst(ws)]
      [] pc[s] = "exchange" ->
           [lockState EXCEPT ![curLock[s]] = LkRelease(@)]
      [] OTHER -> lockState

\* The cancelled task runs: CancelledError is raised where it is suspended.
DeliverCancel(s) ==
    /\ cancelReq[s]
    /\ pc[s] \notin Terminated
    /\ lockState' = CancelUnwind(s)
    /\ pc' = [pc EXCEPT ![s] = "cancelled"]
    /\ diedAt' = [diedAt EXCEPT ![s] = pc[s]]
    /\ tries' = [tries EXCEPT ![s] = 0]
    /\ cancelReq' = [cancelReq EXCEPT ![s] = FALSE]
    /\ UNCHANGED <<gatewayVars, link, client, row, reg, curLock>>
    /\ UNCHANGED <<workerVars, fanoutVars, pipelineVars, readVars,
                   windowVars, statsVars, accumulateVars, consumptionVars,
                   frameVars, gateVars, copyVars, tcpVars>>

(***************************************************************************)
(* Worker and Manager (base/manage).                                       *)
(*   "worker"     a Worker whose __init__ ran Worker.__init__              *)
(*   "generator"  a DataGenerator (Filter, Sensor): DataGenerator.__init__ *)
(*                does not call Worker.__init__, so the attribute          *)
(*                __manager does not exist until set_manager assigns it    *)
(* Managers, by their handle:                                              *)
(*   "simple"   SimpleManager: `async def handle`, returns None            *)
(*   "raising"  the tests' TestManager: `def handle`, raises the report's  *)
(*              content when it is an exception, else returns None         *)
(*   "gateway"  ModbusRTUGatewayManager: `def handle`, prints, returns None*)
(***************************************************************************)
Workers == {"worker", "generator"}
Managers == {"simple", "raising", "gateway"}
Exceptions == {"ValueError", "TimeoutError"}
Contents == Exceptions \cup {"info"}

\* The attribute after the constructors.
InitialManager(w) == IF w = "worker" THEN None ELSE "unset"

\* The manager a worker reports to, None when it has none.
Attached(w) == IF wManager[w] \in Managers THEN wManager[w] ELSE None

SetManagerClearing(old, arg) ==
    CASE arg = None -> [kind |-> "return", value |-> None, manager |-> None]
      [] arg \notin Managers ->
           [kind |-> "raise", value |-> "TypeError", manager |-> old]
      [] OTHER -> [kind |-> "return", value |-> None, manager |-> arg]

\* set_manager: None is ignored, a non-Manager fails type_check.
SetManager(old, arg) ==
    CASE arg = None -> [kind |-> "return", value |-> None, manager |-> old]
      [] arg \notin Managers ->
           [kind |-> "raise", value |-> "TypeError", manager |-> old]
      [] OTHER -> [kind |-> "return", value |-> None, manager |-> arg]

\* manager.handle(report) as the call expression evaluates it: what it
\* raises, or what it returns ("coroutine:None" for an `async def` that
\* returns None once awaited).
Handle(m, content) ==
    CASE m = "simple" -> [kind |-> "return", value |-> "coroutine:None"]
      [] m = "raising" /\ content \in Exceptions ->
           [kind |-> "raise", value |-> content]
      [] OTHER -> [kind |-> "return", value |-> None]

NotifyManagerSwallowing(mgr, content) ==
    IF mgr \notin Managers
    THEN [kind |-> "raise", value |-> "AttributeError", calls |-> 0]
    ELSE [kind |-> "return", value |-> None, calls |-> 1]

\* notify_manager: `await self.__manager.handle(report)`.
NotifyManager(mgr, content) ==
    IF mgr \notin Managers
    THEN [kind |-> "raise", value |-> "AttributeError", calls |-> 0]
    ELSE LET h == Handle(mgr, content) IN
         CASE h.kind = "raise" -> [kind |-> "raise", value |-> h.value,
                                   calls |-> 1]
           [] h.value = None -> [kind |-> "raise", value |-> "TypeError",
                                 calls |-> 1]
           [] OTHER -> [kind |-> "return", value |-> None, calls |-> 1]

SetManagerCall(w, arg) ==
    /\ wManager' = [wManager EXCEPT ![w] = SetManager(@, arg).manager]
    /\ lastSet' = [lastSet EXCEPT ![w] = arg]
    /\ lastMgrSet' = [lastMgrSet EXCEPT ![w] =
          IF arg \in Managers THEN arg ELSE @]
    /\ lastCall' = [op |-> "set_manager", worker |-> w, arg |-> arg,
                    mgr |-> wManager[w],
                    out |-> [kind |-> SetManager(wManager[w], arg).kind,
                             value |-> SetManager(wManager[w], arg).value,
                             calls |-> 0]]
    /\ UNCHANGED <<gatewayVars, sensorVars, fanoutVars, pipelineVars,
                   readVars, windowVars, statsVars, accumulateVars,
                   consumptionVars, frameVars, gateVars, copyVars, tcpVars>>

NotifyManagerCall(w, content) ==
    /\ lastCall' = [op |-> "notify_manager", worker |-> w, arg |-> content,
                    mgr |-> wManager[w],
                    out |-> NotifyManager(wManager[w], content)]
    /\ UNCHANGED <<wManager, lastSet, lastMgrSet>>
    /\ UNCHANGED <<gatewayVars, sensorVars, fanoutVars, pipelineVars,
                   readVars, windowVars, statsVars, accumulateVars,
                   consumptionVars, frameVars, gateVars, copyVars, tcpVars>>

InitWorkers ==
    /\ wManager = [w \in Workers |-> InitialManager(w)]
    /\ lastSet = [w \in Workers |-> "never"]
    /\ lastMgrSet = [w \in Workers |-> None]
    /\ lastCall = [op |-> None, worker |-> "worker", arg |-> None,
                   mgr |-> None,
                   out |-> [kind |-> "return", value |-> None, calls |-> 0]]

(***************************************************************************)
(* The fan-out of one sensor's batch (base/export, base/sensor).           *)
(*                                                                         *)
(* read_and_process ends with                                              *)
(*     await asyncio.gather(self.notify_exporters(batch),                  *)
(*                          self.notify_pipelines(batch))                  *)
(* so the read-loop task waits on a gather of two tasks, each of which     *)
(* waits on a gather (return_exceptions=True) of one task per exporter or  *)
(* pipeline and then reports every exception result to the manager.        *)
(*                                                                         *)
(* The event loop runs ready tasks in FIFO order (`ready`); a task leaves  *)
(* the queue when it suspends on I/O and re-enters it when the I/O is      *)
(* done.  Managers, by their handle:                                       *)
(*   "unset"      no manager was ever set on the sensor                    *)
(*   "simple"     SimpleManager: prints, returns                           *)
(*   "raising"    the tests' TestManager: raises the report's content      *)
(*   "feedscale"  FeedScaleManager: cancels the sensor's read-loop task,   *)
(*                sends the alarm e-mail, then awaits asyncio.sleep(0)     *)
(***************************************************************************)
FanoutManagers == {"unset", "simple", "raising", "feedscale"}

ReadLoop == <<"read_loop", 0>>
NotifyExporters == <<"notify_exporters", 0>>
NotifyPipelines == <<"notify_pipelines", 0>>
ExportTasks == [i \in 1 .. NumExporters |-> <<"export", i>>]
RunTasks == [j \in 1 .. NumPipelines |-> <<"run", j>>]
Range(f) == {f[i] : i \in DOMAIN f}
Notifiers == {NotifyExporters, NotifyPipelines}
Sinks == Range(ExportTasks) \cup Range(RunTasks)
Tasks == {ReadLoop} \cup Notifiers \cup Sinks

\* The tasks a notifier gathers, in the order of its list.
Children(c) == IF c = NotifyExporters THEN ExportTasks ELSE RunTasks
\* The notifier whose gather holds a sink's task.
Parent(t) == IF t[1] = "export" THEN NotifyExporters ELSE NotifyPipelines

Finished(x) == x \in {"done", "raised", "failed", "cancelled"}

\* The loop's view of the tasks, as the operators below transform it.
FanoutState ==
    [tpc |-> tpc, ready |-> ready, mustCancel |-> mustCancel,
     gResult |-> gResult]

InReady(st, t) == \E i \in DOMAIN st.ready : st.ready[i] = t

\* loop.call_soon of a task's step.
Enqueue(st, t) ==
    IF InReady(st, t) THEN st ELSE [st EXCEPT !.ready = Append(@, t)]

SettleOuterOnFirst(st, how) ==
    IF st.gResult # "pending" \/ st.tpc[ReadLoop] # "gather" THEN st
    ELSE Enqueue([st EXCEPT !.gResult =
            CASE how = "cancelled" -> "cancelled"
              [] how = "failed" -> "error"
              [] OTHER -> "ok"], ReadLoop)

\* gather's _done_callback on the gather of read_and_process (no
\* return_exceptions): the first child that ends cancelled or with an
\* exception settles it, else the last child to finish does.
SettleOuter(st, how) ==
    CASE st.gResult # "pending" \/ st.tpc[ReadLoop] # "gather" -> st
      [] how = "cancelled" ->
           Enqueue([st EXCEPT !.gResult = "cancelled"], ReadLoop)
      [] how = "failed" ->
           Enqueue([st EXCEPT !.gResult = "error"], ReadLoop)
      [] \A c \in Notifiers : st.tpc[c] = "done" ->
           Enqueue([st EXCEPT !.gResult = "ok"], ReadLoop)
      [] OTHER -> st

\* A notifier's task ends.
FinishChild(st, c, how) ==
    SettleOuter([st EXCEPT !.tpc[c] = how, !.mustCancel[c] = FALSE], how)

\* An export()/run() task ends; with return_exceptions=True the notifier's
\* gather settles when the last of its tasks has ended.
FinishSink(st, t, how) ==
    LET st1 == [st EXCEPT !.tpc[t] = how, !.mustCancel[t] = FALSE]
        ch == Children(Parent(t))
    IN  IF /\ st1.tpc[Parent(t)] = "gather"
           /\ \A i \in DOMAIN ch : Finished(st1.tpc[ch[i]])
        THEN Enqueue(st1, Parent(t))
        ELSE st1

\* Task.cancel() on an export()/run() task: a task suspended on I/O has the
\* I/O future cancelled and is woken, a ready task has _must_cancel set, a
\* finished task is left alone.
CancelSink(st, t) ==
    CASE st.tpc[t] = "io" ->
           Enqueue([st EXCEPT !.tpc[t] = "resumed", !.mustCancel[t] = TRUE], t)
      [] st.tpc[t] \in {"start", "resumed"} ->
           [st EXCEPT !.mustCancel[t] = TRUE]
      [] OTHER -> st

RECURSIVE CancelSinks(_, _, _)
\* _GatheringFuture.cancel(): cancel every child, in order.
CancelSinks(st, ch, i) ==
    IF i > Len(ch) THEN st
    ELSE CancelSinks(CancelSink(st, ch[i]), ch, i + 1)

\* Task.cancel() on a notifier's task: waiting on its gather, the gather's
\* children are cancelled and the CancelledError reaches the notifier when
\* the gather settles; otherwise _must_cancel is set.
CancelChild(st, c) ==
    CASE Finished(st.tpc[c]) \/ st.tpc[c] = "none" -> st
      [] st.tpc[c] = "gather" /\ ~InReady(st, c) ->
           [CancelSinks(st, Children(c), 1) EXCEPT !.mustCancel[c] = TRUE]
      [] OTHER -> [st EXCEPT !.mustCancel[c] = TRUE]

\* FeedScaleManager.handle: self.tasks[worker.NAME].cancel().  The read
\* loop waits on the gather of read_and_process, so the cancellation goes
\* to the gather's children; a settled gather leaves _must_cancel on the
\* read loop, a finished read loop ignores it.
CancelReadLoop(st) ==
    CASE Finished(st.tpc[ReadLoop]) -> st
      [] st.tpc[ReadLoop] = "idle" \/ st.gResult # "pending" ->
           [st EXCEPT !.mustCancel[ReadLoop] = TRUE]
      [] OTHER -> CancelChild(CancelChild(st, NotifyExporters),
                              NotifyPipelines)

\* The indexes from i on of a notifier's results that are exceptions.
RaisedFrom(st, c, i) ==
    {k \in i .. Len(Children(c)) : st.tpc[Children(c)[k]] = "raised"}

Min(S) == CHOOSE k \in S : \A m \in S : k <= m

\* `for result in results: if isinstance(result, BaseException):
\*      await self.notify_manager(Report(sign=self, content=result))`
\* run by notifier c from result i on, up to the task's end or its next
\* suspension.  emailRaises: send_alarm_email raised (it does whenever the
\* manager has no e-mail settings).
Reports(st, c, i, emailRaises) ==
    LET raised == RaisedFrom(st, c, i) IN
    CASE raised = {} ->
           [st |-> FinishChild(st, c, "done"), handled |-> 0, next |-> i]
      [] fMgr = "unset" ->
           [st |-> FinishChild(st, c, "failed"), handled |-> 0,
            next |-> Min(raised)]
      [] fMgr = "simple" ->
           [st |-> FinishChild(st, c, "done"),
            handled |-> Cardinality(raised), next |-> i]
      [] fMgr = "raising" ->
           [st |-> FinishChild(st, c, "failed"), handled |-> 1,
            next |-> Min(raised)]
      [] OTHER ->
           LET st1 == CancelReadLoop(st) IN
           IF emailRaises
           THEN [st |-> FinishChild(st1, c, "failed"), handled |-> 1,
                 next |-> Min(raised)]
           ELSE [st |-> Enqueue([st1 EXCEPT !.tpc[c] = "sleep0"], c),
                 handled |-> 1, next |-> Min(raised) + 1]

\* The view once the task at the head of the queue has been taken to run.
Running(t) ==
    [FanoutState EXCEPT !.ready = Tail(@), !.tpc[t] =
        IF t \in Notifiers /\ @ # "start" THEN "running" ELSE @]

SetFanout(st) ==
    /\ tpc' = st.tpc
    /\ ready' = st.ready
    /\ mustCancel' = st.mustCancel
    /\ gResult' = st.gResult

\* read_and_process reaches its gather: both notifiers become tasks.
StartFanout ==
    /\ tpc[ReadLoop] = "idle"
    /\ ~mustCancel[ReadLoop]
    /\ tpc' = [t \in Tasks |->
          CASE t = ReadLoop -> "gather"
            [] t \in Notifiers -> "start"
            [] OTHER -> "none"]
    /\ ready' = <<NotifyExporters, NotifyPipelines>>
    /\ mustCancel' = [t \in Tasks |-> FALSE]
    /\ started' = [t \in Sinks |-> 0]
    /\ handled' = [c \in Notifiers |-> 0]
    /\ nextResult' = [c \in Notifiers |-> 1]
    /\ gResult' = "pending"
    /\ UNCHANGED <<fMgr, gatewayVars, sensorVars, workerVars, pipelineVars,
                   readVars, windowVars, statsVars, accumulateVars,
                   consumptionVars, frameVars, gateVars, copyVars, tcpVars>>

\* notify_exporters / notify_pipelines up to `await asyncio.gather(...)`:
\* one task per exporter (pipeline), scheduled in list order.  With an
\* empty list the gather is already done and the notifier returns.
NotifierStart(c) ==
    /\ ready # <<>> /\ Head(ready) = c
    /\ tpc[c] = "start"
    /\ ~mustCancel[c]
    /\ LET ch == Children(c)
           st == Running(c)
       IN  IF Len(ch) = 0
           THEN SetFanout(FinishChild(st, c, "done"))
           ELSE SetFanout([st EXCEPT
                   !.tpc = [t \in Tasks |->
                       IF t \in Range(ch) THEN "start"
                       ELSE IF t = c THEN "gather" ELSE @[t]],
                   !.ready = @ \o ch])
    /\ UNCHANGED <<fMgr, started, handled, nextResult>>
    /\ UNCHANGED <<gatewayVars, sensorVars, workerVars, pipelineVars,
                   readVars, windowVars, statsVars, accumulateVars,
                   consumptionVars, frameVars, gateVars, copyVars, tcpVars>>

\* What the first step of export() / Pipeline.run() can come to: suspend
\* on I/O (aiofiles, a sleep), yield with asyncio.sleep(0) (the filters),
\* return, or raise.
FirstSteps(t) ==
    IF t[1] = "export" THEN {"io", "done", "raised"}
    ELSE {"io", "yield", "done", "raised"}

\* The first step of an export() / run() task.
SinkStart(t, out) ==
    /\ ready # <<>> /\ Head(ready) = t
    /\ tpc[t] = "start"
    /\ ~mustCancel[t]
    /\ out \in FirstSteps(t)
    /\ started' = [started EXCEPT ![t] = @ + 1]
    /\ LET st == Running(t) IN
       CASE out = "io" -> SetFanout([st EXCEPT !.tpc[t] = "io"])
         [] out = "yield" ->
              SetFanout(Enqueue([st EXCEPT !.tpc[t] = "resumed"], t))
         [] OTHER -> SetFanout(FinishSink(st, t, out))
    /\ UNCHANGED <<fMgr, handled, nextResult>>
    /\ UNCHANGED <<gatewayVars, sensorVars, workerVars, pipelineVars,
                   readVars, windowVars, statsVars, accumulateVars,
                   consumptionVars, frameVars, gateVars, copyVars, tcpVars>>

\* The I/O an export() / run() task waits for completes.
IOComplete(t) ==
    /\ tpc[t] = "io"
    /\ SetFanout(Enqueue([FanoutState EXCEPT !.tpc[t] = "resumed"], t))
    /\ UNCHANGED <<fMgr, started, handled, nextResult>>
    /\ UNCHANGED <<gatewayVars, sensorVars, workerVars, pipelineVars,
                   readVars, windowVars, statsVars, accumulateVars,
                   consumptionVars, frameVars, gateVars, copyVars, tcpVars>>

\* The rest of export() / run() after its suspension.
SinkResume(t, out) ==
    /\ ready # <<>> /\ Head(ready) = t
    /\ tpc[t] = "resumed"
    /\ ~mustCancel[t]
    /\ out \in {"done", "raised"}
    /\ SetFanout(FinishSink(Running(t), t, out))
    /\ UNCHANGED <<fMgr, started, handled, nextResult>>
    /\ UNCHANGED <<gatewayVars, sensorVars, workerVars, pipelineVars,
                   readVars, windowVars, statsVars, accumulateVars,
                   consumptionVars, frameVars, gateVars, copyVars, tcpVars>>

\* A cancelled export() / run() task runs: CancelledError is thrown into
\* it (before its first statement, when it never ran).
SinkCancelled(t) ==
    /\ ready # <<>> /\ Head(ready) = t
    /\ t \in Sinks
    /\ mustCancel[t]
    /\ SetFanout(FinishSink(Running(t), t, "cancelled"))
    /\ UNCHANGED <<fMgr, started, handled, nextResult>>
    /\ UNCHANGED <<gatewayVars, sensorVars, workerVars, pipelineVars,
                   readVars, windowVars, statsVars, accumulateVars,
                   consumptionVars, frameVars, gateVars, copyVars, tcpVars>>

\* A notifier resumes with its gather's results, or after the sleep(0) of
\* FeedScaleManager.handle, and reports.
NotifierReports(c, emailRaises) ==
    /\ ready # <<>> /\ Head(ready) = c
    /\ tpc[c] \in {"gather", "sleep0"}
    /\ ~mustCancel[c]
    /\ LET r == Reports(Running(c), c, nextResult[c], emailRaises) IN
       /\ SetFanout(r.st)
       /\ handled' = [handled EXCEPT ![c] = @ + r.handled]
       /\ nextResult' = [nextResult EXCEPT ![c] = r.next]
    /\ UNCHANGED <<fMgr, started>>
    /\ UNCHANGED <<gatewayVars, sensorVars, workerVars, pipelineVars,
                   readVars, windowVars, statsVars, accumulateVars,
                   consumptionVars, frameVars, gateVars, copyVars, tcpVars>>

\* A cancelled notifier resumes: CancelledError ends it.
NotifierCancelled(c) ==
    /\ ready # <<>> /\ Head(ready) = c
    /\ tpc[c] \in {"gather", "sleep0"}
    /\ mustCancel[c]
    /\ SetFanout(FinishChild(Running(c), c, "cancelled"))
    /\ UNCHANGED <<fMgr, started, handled, nextResult>>
    /\ UNCHANGED <<gatewayVars, sensorVars, workerVars, pipelineVars,
                   readVars, windowVars, statsVars, accumulateVars,
                   consumptionVars, frameVars, gateVars, copyVars, tcpVars>>

\* The read loop resumes from the gather of read_and_process: with its
\* results it returns the batch and sleeps until the next one, with an
\* exception or a cancellation the task ends.
ReadLoopResumes ==
    /\ ready # <<>> /\ Head(ready) = ReadLoop
    /\ LET st == Running(ReadLoop) IN
       SetFanout([st EXCEPT
          !.tpc[ReadLoop] =
              CASE st.mustCancel[ReadLoop] -> "cancelled"
                [] st.gResult = "ok" -> "idle"
                [] st.gResult = "error" -> "failed"
                [] OTHER -> "cancelled",
          !.mustCancel[ReadLoop] = FALSE])
    /\ UNCHANGED <<fMgr, started, handled, nextResult>>
    /\ UNCHANGED <<gatewayVars, sensorVars, workerVars, pipelineVars,
                   readVars, windowVars, statsVars, accumulateVars,
                   consumptionVars, frameVars, gateVars, copyVars, tcpVars>>

\* No fan-out in progress.
InitFanout ==
    /\ tpc = [t \in Tasks |-> IF t = ReadLoop THEN "idle" ELSE "none"]
    /\ ready = <<>>
    /\ mustCancel = [t \in Tasks |-> FALSE]
    /\ started = [t \in Sinks |-> 0]
    /\ handled = [c \in Notifiers |-> 0]
    /\ nextResult = [c \in Notifiers |-> 1]
    /\ gResult = "pending"

(***************************************************************************)
(* Pipeline.run (base/pipeline/__init__.py):                               *)
(*     for filter in self.__filters:                                       *)
(*         data = await filter.process(data)                               *)
(*         await filter.notify_exporters(data)                             *)
(*     return data                                                         *)
(* A batch is the sequence of its rows' values.  The filters are the two   *)
(* of test/base/pipeline/pipeline.py: TestDecreaseFilter maps x to x - 100 *)
(* and TestIncreaseFilter maps x to x + 10.                                *)
(***************************************************************************)
FilterKinds == {"TestDecreaseFilter", "TestIncreaseFilter"}
Values == {0, 10}
SeqsUpTo(S, n) == UNION {[1 .. k -> S] : k \in 0 .. n}
Batches == SeqsUpTo(Values, MaxRows)
ProcessErrors == {"KeyError", "ValueError"}

\* filter.process(data) of a filter that does not raise: data.map(f).
Process(kind, data) ==
    [i \in DOMAIN data |->
        IF kind = "TestDecreaseFilter" THEN data[i] - 100 ELSE data[i] + 10]

PassedOnInput(input, old, out) == input

\* `data = await filter.process(data)`: what the next filter is given.
PassedOn(input, old, out) == out

NeverStops(err) == FALSE

\* An exception raised by process() leaves Pipeline.run: nothing catches it.
Stops(err) == err # None

\* pipeline.run(batch) up to its first await.
PipelineRun(batch) ==
    /\ plPc \in {"idle", "returned", "raised"}
    /\ plInput' = batch
    /\ plData' = batch
    /\ plProcessed' = [i \in DOMAIN plFilters |-> 0]
    /\ plNotified' = [i \in DOMAIN plFilters |-> <<>>]
    /\ plRaisedAt' = 0
    /\ IF plFilters = <<>>
       THEN /\ plPc' = "returned"
            /\ plIdx' = 0
            /\ plOutcome' = [kind |-> "return", value |-> batch]
       ELSE /\ plPc' = "process"
            /\ plIdx' = 1
            /\ plOutcome' = [kind |-> None, value |-> <<>>]
    /\ UNCHANGED plFilters
    /\ UNCHANGED <<gatewayVars, sensorVars, workerVars, fanoutVars, readVars,
                   windowVars, statsVars, accumulateVars, consumptionVars,
                   frameVars, gateVars, copyVars, tcpVars>>

\* `data = await filter.process(data)`: err is what process raised, None
\* when it returned.
FilterProcess(err) ==
    /\ plPc = "process"
    /\ plProcessed' = [plProcessed EXCEPT ![plIdx] = @ + 1]
    /\ plRaisedAt' = IF err # None THEN plIdx ELSE plRaisedAt
    /\ IF Stops(err)
       THEN /\ plPc' = "raised"
            /\ plOutcome' = [kind |-> "raise", value |-> err]
            /\ plData' = plData
       ELSE /\ plPc' = "notify"
            /\ plData' = PassedOn(plInput, plData,
                                  Process(plFilters[plIdx], plData))
            /\ plOutcome' = plOutcome
    /\ UNCHANGED <<plFilters, plIdx, plInput, plNotified>>
    /\ UNCHANGED <<gatewayVars, sensorVars, workerVars, fanoutVars, readVars,
                   windowVars, statsVars, accumulateVars, consumptionVars,
                   frameVars, gateVars, copyVars, tcpVars>>

\* `await filter.notify_exporters(data)`, which returns, or raises what the
\* filter's notify_manager raised for a failed exporter; then the next
\* filter, or `return data`.
FilterNotify(raised) ==
    /\ plPc = "notify"
    /\ plNotified' = [plNotified EXCEPT ![plIdx] = Append(@, plData)]
    /\ IF raised
       THEN /\ plPc' = "raised"
            /\ plOutcome' = [kind |-> "raise", value |-> "AttributeError"]
            /\ plIdx' = plIdx
       ELSE IF plIdx < Len(plFilters)
       THEN /\ plPc' = "process"
            /\ plIdx' = plIdx + 1
            /\ plOutcome' = plOutcome
       ELSE /\ plPc' = "returned"
            /\ plIdx' = plIdx
            /\ plOutcome' = [kind |-> "return", value |-> plData]
    /\ UNCHANGED <<plFilters, plInput, plData, plProcessed, plRaisedAt>>
    /\ UNCHANGED <<gatewayVars, sensorVars, workerVars, fanoutVars, readVars,
                   windowVars, statsVars, accumulateVars, consumptionVars,
                   frameVars, gateVars, copyVars, tcpVars>>

\* A pipeline that has not run, with the filters fs.
InitPipelineWith(fs) ==
    /\ plFilters = fs
    /\ plPc = "idle"
    /\ plIdx = 0
    /\ plInput = <<>>
    /\ plData = <<>>
    /\ plProcessed = [i \in DOMAIN fs |-> 0]
    /\ plNotified = [i \in DOMAIN fs |-> <<>>]
    /\ plRaisedAt = 0
    /\ plOutcome = [kind |-> None, value |-> <<>>]

\* No pipeline in play.
InitPipeline == InitPipelineWith(<<>>)

(***************************************************************************)
(* The rows of one Modbus sensor's batch (base/sensor/modbus.py).          *)
(*                                                                         *)
(* self._data maps "Timestamp" and every register's field_name to a list;  *)
(* rdCols keeps the length of each (column 0 is "Timestamp", column r the  *)
(* list of register r).  read_and_process clears the lists, reads every    *)
(* register LENGTH_OF_A_BATCH times and builds DataFrame(self._data).      *)
(* Registers have function code 3 or 4 and distinct field names.           *)
(*                                                                         *)
(* One exchange with the device comes to:                                  *)
(*   "ok"      a response whose registers[0] transforms to a value         *)
(*   "retry"   TCP only: an ExceptionResponse, read again under the lock   *)
(*   "errval"  an exception object returned as the result                  *)
(*   "caught"  RTU only: an Exception raised inside the try                *)
(*   "crash"   an error outside any try (the TCP exchange itself, or       *)
(*             result.registers[0] / transform on a result of no use)      *)
(***************************************************************************)
Columns == 0 .. NumRegisters
SensorKinds == {"RTU", "TCP"}

Exchanges(kind) ==
    IF kind = "RTU" THEN {"ok", "errval", "caught", "crash"}
    ELSE {"ok", "retry", "errval", "crash"}

\* _clear_data(): every list of self._data is emptied.
KeepData(cols) == cols
ClearData(cols) == [c \in Columns |-> 0]

\* DataFrame(dict of lists) raises ValueError ("All arrays must be of the
\* same length") unless every list has the same length.
ColumnsAgreeAlways(cols) == TRUE
ColumnsAgree(cols) == \A c, d \in Columns : cols[c] = cols[d]

\* notify_manager(report) for a manager of each kind, as read_and_process
\* sees it: how many handle calls were made and how the await ends.
\* FeedScaleManager.handle cancels the reading task it runs in, then
\* send_alarm_email raises ValueError without e-mail settings, else the
\* CancelledError arrives at its next suspension.
Notified(mgr, emailRaises) ==
    CASE mgr = "unset" ->
           [calls |-> 0, kind |-> "raise", value |-> "AttributeError"]
      [] mgr = "simple" ->
           [calls |-> 1, kind |-> "return", value |-> None]
      [] mgr = "raising" ->
           [calls |-> 1, kind |-> "raise", value |-> "content"]
      [] OTHER ->
           IF emailRaises
           THEN [calls |-> 1, kind |-> "raise", value |-> "ValueError"]
           ELSE [calls |-> 1, kind |-> "cancelled",
                 value |-> "CancelledError"]

\* read_and_process is called: `self._clear_data()`, then the first
\* exchange of the first row is due.
ReadBegin ==
    /\ rdPc = "idle"
    /\ rdCols' = ClearData(rdCols)
    /\ rdRow' = 1 /\ rdReg' = 1 /\ rdTries' = 0
    /\ rdExch' = 0 /\ rdReports' = 0 /\ rdHanded' = 0
    /\ rdFailedAt' = 0 /\ rdErrVals' = 0
    /\ rdPc' = IF BatchLen = 0 THEN "frame"
               ELSE IF NumRegisters = 0 THEN "sleep" ELSE "exchange"
    /\ UNCHANGED <<rdKind, rdMgr, rdBatch, rdOutcome>>
    /\ UNCHANGED <<gatewayVars, sensorVars, workerVars, fanoutVars,
                   pipelineVars, windowVars, statsVars, accumulateVars,
                   consumptionVars, frameVars, gateVars, copyVars, tcpVars>>

\* Where the row goes on after register rdReg.
AfterRegister == IF rdReg < NumRegisters THEN "exchange" ELSE "sleep"

\* One exchange for register rdReg of row rdRow and what follows it up to
\* the next await.
ReadExchange(out) ==
    /\ rdPc = "exchange"
    /\ out \in Exchanges(rdKind)
    /\ out = "retry" => rdTries + 1 < MaxTries
    /\ rdExch' = rdExch + 1
    /\ rdTries' = IF out = "retry" THEN rdTries + 1 ELSE 0
    /\ rdErrVals' = IF out \in {"retry", "errval"} THEN rdErrVals + 1
                    ELSE rdErrVals
    /\ rdFailedAt' = IF out = "caught" THEN rdExch + 1 ELSE rdFailedAt
    /\ rdCols' = IF out = "ok" THEN [rdCols EXCEPT ![rdReg] = @ + 1]
                 ELSE rdCols
    /\ rdPc' = CASE out = "ok" -> AfterRegister
                 [] out = "retry" -> "exchange"
                 [] out = "errval" -> "reportErrVal"
                 [] out = "caught" -> "report"
                 [] OTHER -> "dead"
    /\ rdReg' = IF out = "ok" /\ rdReg < NumRegisters THEN rdReg + 1
                ELSE rdReg
    /\ rdOutcome' = IF out = "crash"
                    THEN [kind |-> "raise", value |-> "exchange"]
                    ELSE rdOutcome
    /\ UNCHANGED <<rdKind, rdMgr, rdRow, rdReports, rdHanded, rdBatch>>
    /\ UNCHANGED <<gatewayVars, sensorVars, workerVars, fanoutVars,
                   pipelineVars, windowVars, statsVars, accumulateVars,
                   consumptionVars, frameVars, gateVars, copyVars, tcpVars>>

\* `except Exception as ex: await self.notify_manager(Report(sign=self,
\* content=ex)); return None`.
ReadReportsCaught(emailRaises) ==
    /\ rdPc = "report"
    /\ LET n == Notified(rdMgr, emailRaises) IN
       /\ rdReports' = rdReports + n.calls
       /\ rdOutcome' = [kind |-> n.kind, value |-> n.value]
       /\ rdPc' = IF n.kind = "return" THEN "idle" ELSE "dead"
    /\ UNCHANGED <<rdKind, rdMgr, rdRow, rdReg, rdTries, rdCols, rdExch,
                   rdHanded, rdBatch, rdFailedAt, rdErrVals>>
    /\ UNCHANGED <<gatewayVars, sensorVars, workerVars, fanoutVars,
                   pipelineVars, windowVars, statsVars, accumulateVars,
                   consumptionVars, frameVars, gateVars, copyVars, tcpVars>>

\* `if isinstance(result, BaseException): await self.notify_manager(...);
\* continue`: nothing is appended for the register.
ReadReportsErrVal(emailRaises) ==
    /\ rdPc = "reportErrVal"
    /\ LET n == Notified(rdMgr, emailRaises) IN
       /\ rdReports' = rdReports + n.calls
       /\ IF n.kind = "return"
          THEN /\ rdPc' = AfterRegister
               /\ rdReg' = IF rdReg < NumRegisters THEN rdReg + 1 ELSE rdReg
               /\ UNCHANGED rdOutcome
          ELSE /\ rdPc' = "dead"
               /\ rdOutcome' = [kind |-> n.kind, value |-> n.value]
               /\ UNCHANGED rdReg
    /\ UNCHANGED <<rdKind, rdMgr, rdRow, rdTries, rdCols, rdExch, rdHanded,
                   rdBatch, rdFailedAt, rdErrVals>>
    /\ UNCHANGED <<gatewayVars, sensorVars, workerVars, fanoutVars,
                   pipelineVars, windowVars, statsVars, accumulateVars,
                   consumptionVars, frameVars, gateVars, copyVars, tcpVars>>

\* The end of a row: the timestamp is appended, then
\* `await asyncio.sleep(self._DURATION)`.
ReadRowSleep ==
    /\ rdPc = "sleep"
    /\ rdCols' = [rdCols EXCEPT ![0] = @ + 1]
    /\ rdPc' = IF rdRow < BatchLen THEN
                   (IF NumRegisters = 0 THEN "sleep" ELSE "exchange")
               ELSE "frame"
    /\ rdRow' = IF rdRow < BatchLen THEN rdRow + 1 ELSE rdRow
    /\ rdReg' = 1
    /\ UNCHANGED <<rdKind, rdMgr, rdTries, rdExch, rdReports, rdHanded,
                   rdBatch, rdFailedAt, rdErrVals, rdOutcome>>
    /\ UNCHANGED <<gatewayVars, sensorVars, workerVars, fanoutVars,
                   pipelineVars, windowVars, statsVars, accumulateVars,
                   consumptionVars, frameVars, gateVars, copyVars, tcpVars>>

\* After the last row: `batch = DataFrame(self._data)`, and the batch goes
\* to notify_exporters and notify_pipelines.
ReadFrame ==
    /\ rdPc = "frame"
    /\ IF ColumnsAgree(rdCols)
       THEN /\ rdBatch' = {rdCols}
            /\ rdHanded' = rdHanded + 1
            /\ rdPc' = "fanout"
            /\ UNCHANGED rdOutcome
       ELSE /\ rdPc' = "dead"
            /\ rdOutcome' = [kind |-> "raise", value |-> "ValueError"]
            /\ UNCHANGED <<rdBatch, rdHanded>>
    /\ UNCHANGED <<rdKind, rdMgr, rdRow, rdReg, rdTries, rdCols, rdExch,
                   rdReports, rdFailedAt, rdErrVals>>
    /\ UNCHANGED <<gatewayVars, sensorVars, workerVars, fanoutVars,
                   pipelineVars, windowVars, statsVars, accumulateVars,
                   consumptionVars, frameVars, gateVars, copyVars, tcpVars>>

\* The gather of the two notifiers ends: `return batch`, or what the
\* gather raised.
ReadFanoutEnds(how) ==
    /\ rdPc = "fanout"
    /\ how \in {"return", "raise", "cancelled"}
    /\ rdOutcome' = [kind |-> how,
                     value |-> IF how = "return" THEN "batch" ELSE "gather"]
    /\ rdPc' = IF how = "return" THEN "idle" ELSE "dead"
    /\ UNCHANGED <<rdKind, rdMgr, rdRow, rdReg, rdTries, rdCols, rdExch,
                   rdReports, rdHanded, rdBatch, rdFailedAt, rdErrVals>>
    /\ UNCHANGED <<gatewayVars, sensorVars, workerVars, fanoutVars,
                   pipelineVars, windowVars, statsVars, accumulateVars,
                   consumptionVars, frameVars, gateVars, copyVars, tcpVars>>

\* A sensor of kind k with manager m, built and not yet read:
\* `self._data = {"Timestamp": []}` and initialize_data().
InitReadWith(k, m) ==
    /\ rdKind = k
    /\ rdMgr = m
    /\ rdPc = "idle"
    /\ rdRow = 1 /\ rdReg = 1 /\ rdTries = 0
    /\ rdCols = [c \in Columns |-> 0]
    /\ rdExch = 0 /\ rdReports = 0 /\ rdHanded = 0
    /\ rdBatch = {}
    /\ rdFailedAt = 0 /\ rdErrVals = 0
    /\ rdOutcome = [kind |-> "pending", value |-> None]

\* No sensor being read.
InitRead == InitReadWith("RTU", "unset")

(***************************************************************************)
(* The windowed filters (base/pipeline/time_series_filters.py).            *)
(*                                                                         *)
(* A batch is a sequence of rows [t, v]: the Timestamp column and one      *)
(* value column (every value column has a deque of its own and goes        *)
(* through the same loop body).  A cell is <<>> for a null (None, nan) and *)
(* <<x>> for the number x; a mean or median is the fraction <<num, den>>.  *)
(* The n-th row a filter is fed carries the timestamp n.  Capacities are   *)
(* the positive lengths.                                                   *)
(*   "Fifo"           FIFOFilter with the tests' process: _replace_first_n *)
(*                    of the batch, then _generate_dataframe               *)
(*   "MovingAverage"  MovingAverageFilter                                  *)
(*   "MovingMedian"   MovingMedianFilter                                   *)
(***************************************************************************)
WindowKinds == {"Fifo", "MovingAverage", "MovingMedian"}
MovingKinds == {"MovingAverage", "MovingMedian"}
Capacities == 1 .. MaxLength
Samples == {1, 2, 6}
NullCell == <<>>
Cells == {NullCell} \cup {<<x>> : x \in Samples}
\* pandas.isna(value)
IsNa(c) == c = NullCell

\* deque(maxlen=L).append(c): a full deque drops its oldest item.
PushKeepingOldest(L, w, c) == IF Len(w) < L THEN Append(w, c) ELSE w
Push(L, w, c) ==
    IF L = 0 THEN w
    ELSE IF Len(w) < L THEN Append(w, c) ELSE Append(Tail(w), c)

RECURSIVE PushAll(_, _, _)
\* `for value in new_rows: self._data[key].append(value)`
PushAll(L, w, cs) ==
    IF cs = <<>> THEN w ELSE PushAll(L, Push(L, w, Head(cs)), Tail(cs))

RECURSIVE SumOf(_)
SumOf(w) == IF w = <<>> THEN 0 ELSE Head(w)[1] + SumOf(Tail(w))

RECURSIVE Insert(_, _)
Insert(s, x) ==
    IF s = <<>> THEN <<x>>
    ELSE IF x <= Head(s) THEN <<x>> \o s
    ELSE <<Head(s)>> \o Insert(Tail(s), x)

RECURSIVE SortedOf(_)
\* sorted(data) of the numbers in a window
SortedOf(w) == IF w = <<>> THEN <<>> ELSE Insert(SortedOf(Tail(w)), Head(w)[1])

\* statistics.mean of a non-empty window
Mean(w) == <<SumOf(w), Len(w)>>

\* statistics.median of a non-empty window: the middle item, or the mean
\* of the two middle items
Median(w) ==
    LET s == SortedOf(w)
        n == Len(s)
    IN  IF n % 2 = 1 THEN <<s[(n \div 2) + 1], 1>>
        ELSE <<s[n \div 2] + s[(n \div 2) + 1], 2>>

Stat(kind, w) == IF kind = "MovingAverage" THEN Mean(w) ELSE Median(w)

\* What a moving filter appends to its output for a row: the statistic of
\* self._data[key] as it is after the row's value was handled.
EmittedOfOld(kind, before, after) ==
    IF before = <<>> THEN Stat(kind, after) ELSE Stat(kind, before)
Emitted(kind, before, after) == Stat(kind, after)

\* `if self._data is None: self.initialize_data(data)`
NeedsInitAlways(init) == TRUE
NeedsInit(init) == ~init

RECURSIVE MovingRows(_, _, _, _, _)
\* The loop `for value in values` of MovingAverageFilter.process and
\* MovingMedianFilter.process over a batch's value column, from the window
\* w: the window it leaves and, per row, what was done.
MovingRows(kind, L, w, rows, acc) ==
    IF rows = <<>> THEN [window |-> w, out |-> acc]
    ELSE LET r == Head(rows)
             after == IF IsNa(r.v) THEN w ELSE Push(L, w, r.v)
             o == IF IsNa(r.v) /\ Len(w) = 0 THEN NullCell
                  ELSE Emitted(kind, w, after)
         IN  MovingRows(kind, L, after, Tail(rows),
                 Append(acc, [t |-> r.t, in |-> r.v, before |-> w,
                              after |-> after, out |-> o]))

\* The windows a call works on: fresh ones from initialize_data, else the
\* filter's.
WindowsAtCall ==
    IF NeedsInit(wfInit) THEN [t |-> <<>>, v |-> <<>>] ELSE wfData

\* The rows of a batch of cells cs fed after n rows.
RowsOf(cs, n) == [i \in DOMAIN cs |-> [t |-> n + i, v |-> cs[i]]]

Column(rows, k) == [i \in DOMAIN rows |-> rows[i][k]]

\* process(data) of the tests' FIFOFilter: every column's values are
\* pushed, the windows are returned as a dataframe.
FifoProcess(cs) ==
    /\ wfKind = "Fifo"
    /\ Len(wfIn) + Len(cs) <= MaxFed
    /\ LET rows == RowsOf(cs, Len(wfIn))
           w0 == WindowsAtCall
           w1 == [t |-> PushAll(wfLength, w0.t, Column(rows, "t")),
                  v |-> PushAll(wfLength, w0.v, Column(rows, "v"))]
       IN  /\ wfData' = w1
           /\ wfPushed' = [t |-> wfPushed.t \o Column(rows, "t"),
                           v |-> wfPushed.v \o Column(rows, "v")]
           /\ wfRet' = [i \in DOMAIN w1.t |-> [t |-> w1.t[i], v |-> w1.v[i]]]
           /\ wfIn' = wfIn \o rows
           /\ wfBatch' = rows
    /\ wfInit' = TRUE
    /\ wfCalls' = wfCalls + 1
    /\ UNCHANGED <<wfKind, wfLength, wfOut>>
    /\ UNCHANGED <<gatewayVars, sensorVars, workerVars, fanoutVars,
                   pipelineVars, readVars, statsVars, accumulateVars,
                   consumptionVars, frameVars, gateVars, copyVars, tcpVars>>

\* MovingAverageFilter.process / MovingMedianFilter.process: the first
\* column is copied to the result, the value column goes row by row
\* through the window.
MovingProcess(cs) ==
    /\ wfKind \in MovingKinds
    /\ Len(wfIn) + Len(cs) <= MaxFed
    /\ LET rows == RowsOf(cs, Len(wfIn))
           w0 == WindowsAtCall
           m == MovingRows(wfKind, wfLength, w0.v, rows, <<>>)
       IN  /\ wfData' = [w0 EXCEPT !.v = m.window]
           /\ wfPushed' = [wfPushed EXCEPT !.v =
                  @ \o SelectSeq(Column(rows, "v"), LAMBDA c : ~IsNa(c))]
           /\ wfOut' = wfOut \o m.out
           /\ wfRet' = [i \in DOMAIN m.out |->
                           [t |-> m.out[i].t, v |-> m.out[i].out]]
           /\ wfIn' = wfIn \o rows
           /\ wfBatch' = rows
    /\ wfInit' = TRUE
    /\ wfCalls' = wfCalls + 1
    /\ UNCHANGED <<wfKind, wfLength>>
    /\ UNCHANGED <<gatewayVars, sensorVars, workerVars, fanoutVars,
                   pipelineVars, readVars, statsVars, accumulateVars,
                   consumptionVars, frameVars, gateVars, copyVars, tcpVars>>

\* A filter of class k and capacity L, constructed: self._data is None.
InitWindowWith(k, L) ==
    /\ wfKind = k
    /\ wfLength = L
    /\ wfInit = FALSE
    /\ wfData = [t |-> <<>>, v |-> <<>>]
    /\ wfPushed = [t |-> <<>>, v |-> <<>>]
    /\ wfIn = <<>>
    /\ wfOut = <<>>
    /\ wfRet = <<>>
    /\ wfBatch = <<>>
    /\ wfCalls = 0

\* No windowed filter in play.
InitWindow == InitWindowWith("Fifo", 1)

(***************************************************************************)
(* The statistics filters (base/pipeline/time_series_filters.py):          *)
(* BatchStdevFilter, BatchAverageFilter and MovingStdevFilter.             *)
(*                                                                         *)
(* A batch filter's batch is a sequence of rows [t, a, b]: the first       *)
(* column and two value columns of cells.  The sample mean and standard    *)
(* deviation of k numbers are kept as <<k, S, Q>>, S their sum and Q the   *)
(* sum of their squares, and compared exactly:                             *)
(*   mean - n*std <= v <= mean + n*std                                     *)
(*     iff  (k*v - S)^2 * (k - 1) <= n^2 * k * (k*Q - S^2).                *)
(* A cell set to a bound is <<side, k, S, Q>>, side -1 for mean - n*std    *)
(* and 1 for mean + n*std.                                                 *)
(***************************************************************************)
StatsKinds == {"BatchStdev", "BatchAverage", "MovingStdev"}
StdevRanges == {1, 2}
StatCells == {NullCell, <<1>>, <<6>>}

\* series.dropna().to_list()
DropNa(col) == SelectSeq(col, LAMBDA c : ~IsNa(c))

RECURSIVE SumSq(_)
SumSq(w) == IF w = <<>> THEN 0 ELSE Head(w)[1] * Head(w)[1] + SumSq(Tail(w))

\* mean(values) and stdev(values), as the numbers they are functions of
StatsOf(w) == <<Len(w), SumOf(w), SumSq(w)>>

\* lower_bound <= value <= upper_bound; every comparison with nan is false
InRange(c, st, n) ==
    /\ ~IsNa(c)
    /\ (st[1] * c[1] - st[2]) * (st[1] * c[1] - st[2]) * (st[1] - 1)
          <= n * n * st[1] * (st[1] * st[3] - st[2] * st[2])

\* value < lower_bound, for a value that is not in range
BelowLower(c, st) == ~IsNa(c) /\ st[1] * c[1] < st[2]

LowerBound(st) == <<0 - 1>> \o st
UpperBound(st) == <<1>> \o st

\* The body of the row loop of BatchStdevFilter.process and, after the
\* append, of MovingStdevFilter.process: the cell left in the batch.
Clamped(c, st, n, remove) ==
    IF InRange(c, st, n) THEN c
    ELSE IF remove THEN NullCell
    ELSE IF BelowLower(c, st) THEN LowerBound(st)
    ELSE UpperBound(st)

\* `if len(values) <= 2` / `if len(self._data[key]) <= 2`
TooShortBelowTwo(w) == Len(w) <= 1
TooShort(w) == Len(w) <= 2

\* BatchStdevFilter.process: column after column; the first column with
\* too few values returns raw_data, the copy of the batch as it came.
BatchStdev(rows, n, remove) ==
    LET A == DropNa(Column(rows, "a"))
        B == DropNa(Column(rows, "b"))
    IN  IF TooShort(A) \/ TooShort(B) THEN rows
        ELSE [i \in DOMAIN rows |->
                 [t |-> rows[i].t,
                  a |-> Clamped(rows[i].a, StatsOf(A), n, remove),
                  b |-> Clamped(rows[i].b, StatsOf(B), n, remove)]]

\* BatchAverageFilter.process, per value column
AverageCell(col) == IF DropNa(col) = <<>> THEN NullCell ELSE Mean(DropNa(col))

\* data.iloc[-1, 0]
FirstTimestamp(rows) == rows[1].t
LastTimestamp(rows) == rows[Len(rows)].t

\* BatchAverageFilter.process on a batch with a row: data.iloc[-1, 0] and
\* one cell per value column.
BatchAverage(rows) ==
    <<[t |-> LastTimestamp(rows),
       a |-> AverageCell(Column(rows, "a")),
       b |-> AverageCell(Column(rows, "b"))]>>

\* process(data) of a batch filter on the batch at hand; data.iloc[-1, 0]
\* of a batch without rows raises IndexError.
BatchFilterProcess ==
    /\ sdKind \in {"BatchStdev", "BatchAverage"}
    /\ sdCalls < MaxCalls
    /\ sdOut' = CASE sdKind = "BatchStdev" ->
                       [kind |-> "frame",
                        rows |-> BatchStdev(sdIn, sdN, sdRemove)]
                  [] sdIn = <<>> -> [kind |-> "IndexError", rows |-> <<>>]
                  [] OTHER -> [kind |-> "frame", rows |-> BatchAverage(sdIn)]
    /\ sdCalls' = sdCalls + 1
    /\ UNCHANGED <<sdKind, sdN, sdRemove, sdIn>>
    /\ UNCHANGED <<gatewayVars, sensorVars, workerVars, fanoutVars,
                   pipelineVars, readVars, windowVars, accumulateVars,
                   consumptionVars, frameVars, gateVars, copyVars, tcpVars>>

\* The samples MovingStdevFilter takes stdev and mean of for a value: the
\* deque once the value is appended.
MeasuredBefore(before, after) == IF TooShort(before) THEN after ELSE before
Measured(before, after) == after

RECURSIVE StdevRows(_, _, _, _, _, _)
\* The loop `for j in range(data.shape[0])` of MovingStdevFilter.process
\* over a batch's value column, from the window w.
StdevRows(L, n, remove, w, rows, acc) ==
    IF rows = <<>> THEN [window |-> w, out |-> acc]
    ELSE LET r == Head(rows)
             after == IF IsNa(r.v) THEN w ELSE Push(L, w, r.v)
             o == IF IsNa(r.v) \/ TooShort(after) THEN r.v
                  ELSE Clamped(r.v, StatsOf(Measured(w, after)), n, remove)
         IN  StdevRows(L, n, remove, after, Tail(rows),
                 Append(acc, [t |-> r.t, in |-> r.v, before |-> w,
                              after |-> after, out |-> o]))

\* MovingStdevFilter.process: the batch is changed in place and returned.
MovingStdevProcess(cs) ==
    /\ sdKind = "MovingStdev"
    /\ Len(wfIn) + Len(cs) <= MaxFed
    /\ LET rows == RowsOf(cs, Len(wfIn))
           w0 == WindowsAtCall
           m == StdevRows(wfLength, sdN, sdRemove, w0.v, rows, <<>>)
       IN  /\ wfData' = [w0 EXCEPT !.v = m.window]
           /\ wfPushed' = [wfPushed EXCEPT !.v = @ \o DropNa(Column(rows, "v"))]
           /\ wfOut' = wfOut \o m.out
           /\ wfRet' = [i \in DOMAIN m.out |->
                           [t |-> m.out[i].t, v |-> m.out[i].out]]
           /\ wfIn' = wfIn \o rows
           /\ wfBatch' = rows
    /\ wfInit' = TRUE
    /\ wfCalls' = wfCalls + 1
    /\ UNCHANGED <<wfKind, wfLength>>
    /\ UNCHANGED <<gatewayVars, sensorVars, workerVars, fanoutVars,
                   pipelineVars, readVars, statsVars, accumulateVars,
                   consumptionVars, frameVars, gateVars, copyVars, tcpVars>>

\* A statistics filter of class k, constructed, and for a batch filter the
\* batch it is about to get.
InitStatsWith(k, n, remove, batch) ==
    /\ sdKind = k
    /\ sdN = n
    /\ sdRemove = remove
    /\ sdIn = batch
    /\ sdOut = [kind |-> "none", rows |-> <<>>]
    /\ sdCalls = 0

\* No statistics filter in play.
InitStats == InitStatsWith("BatchAverage", 1, FALSE, <<>>)

(***************************************************************************)
(* AccumulateFilter (base/pipeline/time_series_filters.py).  A row is the  *)
(* number of its place among all rows the filter was given, a batch a      *)
(* sequence of rows.                                                       *)
(***************************************************************************)
\* The row counts of the batches given to process.
IncomingSizes == 0 .. 2 * MaxLength + 1

\* data.iloc[-n:, :]
HeadRows(data, n) == IF n >= Len(data) THEN data ELSE SubSeq(data, 1, n)
TailRows(data, n) ==
    IF n = 0 \/ n >= Len(data) THEN data
    ELSE SubSeq(data, Len(data) - n + 1, Len(data))

\* data.iloc[:e, :] and data.iloc[i:, :]
RowsUpTo(data, e) == IF e >= Len(data) THEN data ELSE SubSeq(data, 1, e)
RowsFrom(data, i) == SubSeq(data, i + 1, Len(data))

\* `data.shape[0] + self.__old.shape[0] < self.__MAX_LENGTH`
FitsBelowTwice(total, max) == total < 2 * max
Fits(total, max) == total < max

\* `DataFrame(data.iloc[export_rows + 1:, :])`: where the carried rows start
CarriedFromSplit(e) == e
CarriedFrom(e) == e + 1

\* `return self.__old.copy()`: whether the result is the object self.__old
SharedWithoutCopy(frame) == TRUE
SharedAfterCopy(frame) == FALSE

\* self.__old = concat([self.__old, data], ignore_index=True)
PendingCleared(old, data) == <<>>
PendingAfterFits(old, data) == old \o data

\* AccumulateFilter.process(data) on a batch of d rows.
AccumulateProcess(d) ==
    /\ acCalls < MaxCalls
    /\ d \in IncomingSizes
    /\ LET data == [i \in 1 .. d |-> acFed + i]
           total == d + Len(acOld)
           e == acMax - Len(acOld)
       IN  /\ acIn' = data
           /\ acBefore' = acOld
           /\ CASE total >= 2 * acMax ->
                     /\ acCase' = "overlong"
                     /\ acOld' = <<>>
                     /\ acRet' = TailRows(data, acMax)
                     /\ acShared' = FALSE
                [] Fits(total, acMax) ->
                     /\ acCase' = "fits"
                     /\ acOld' = PendingAfterFits(acOld, data)
                     /\ acRet' = acOld \o data
                     /\ acShared' = SharedAfterCopy(acOld \o data)
                [] OTHER ->
                     /\ acCase' = "fills"
                     /\ acOld' = RowsFrom(data, CarriedFrom(e))
                     /\ acRet' = acOld \o RowsUpTo(data, e)
                     /\ acShared' = FALSE
    /\ acFed' = acFed + d
    /\ acCalls' = acCalls + 1
    /\ UNCHANGED acMax
    /\ UNCHANGED <<gatewayVars, sensorVars, workerVars, fanoutVars,
                   pipelineVars, readVars, windowVars, statsVars,
                   consumptionVars, frameVars, gateVars, copyVars, tcpVars>>

\* The caller changes the batch it got (a later filter of the pipeline
\* writes into its first row): the pending rows change with it when they
\* are the same object.
ReturnedBatchMutated ==
    /\ acCase # "none" /\ acRet # <<>>
    /\ acRet[1] > 0
    /\ acRet' = [acRet EXCEPT ![1] = 0 - @]
    /\ acOld' = IF acShared THEN [acOld EXCEPT ![1] = 0 - @] ELSE acOld
    /\ UNCHANGED <<acMax, acBefore, acIn, acCase, acShared, acFed, acCalls>>
    /\ UNCHANGED <<gatewayVars, sensorVars, workerVars, fanoutVars,
                   pipelineVars, readVars, windowVars, statsVars,
                   consumptionVars, frameVars, gateVars, copyVars, tcpVars>>

\* AccumulateFilter(length): `self.__old = DataFrame()`.
InitAccumulateWith(max) ==
    /\ acMax = max
    /\ acOld = <<>>
    /\ acBefore = <<>>
    /\ acIn = <<>>
    /\ acRet = <<>>
    /\ acCase = "none"
    /\ acShared = FALSE
    /\ acFed = 0
    /\ acCalls = 0

\* No Accumulate filter in play.
InitAccumulate == InitAccumulateWith(1)

(***************************************************************************)
(* BatchConsumptionFilter (src/base/pipeline/time_series_filters.py).  One *)
(* value column is followed; every column has its own windows and levels.  *)
(* A timestamp is a tick; three ticks make a day, and the tick's place in  *)
(* its day is its time of day.  The levels are kept doubled, so that the   *)
(* median of two samples stays an integer.                                 *)
(***************************************************************************)
Levels == {0 - 2, 0 - 1, 0, 1}
LevelCells == {NullCell} \cup {<<x>> : x \in Levels}
Timestamps == 1 .. 4
TimeOfDay(t) == t % 3
StartTime == 1
EndTime == 2
ExportDuration == 2
FrontTails == {<<1, 1>>, <<2, 1>>, <<1, 2>>}
Methods == {<<TRUE, FALSE>>, <<FALSE, TRUE>>, <<TRUE, TRUE>>}
Multiples == {1, 2}
ColumnCounts == {2, 3}

\* The batches whose rows <<timestamp, cell>> come later than `now`, in order.
RECURSIVE RowsAfter(_, _)
RowsAfter(now, n) ==
    IF n = 0 THEN {<<>>}
    ELSE {<<>>} \cup
         UNION {{<<<<t, c>>>> \o rest :
                    c \in LevelCells, rest \in RowsAfter(t, n - 1)} :
                t \in {u \in Timestamps : u > now}}

\* The rows of a batch come later than the rows before them.
RowsGoUp(now, rows) ==
    \A i \in 1 .. Len(rows) :
        rows[i][1] > (IF i = 1 THEN now ELSE rows[i - 1][1])

Twice(f) == f[1] * (2 \div f[2])

FrontOf(w, front) == SubSeq(w, 1, front)
TailOf(w, tail) == SubSeq(w, Len(w) - tail + 1, Len(w))

MinLevel(w) == SortedOf(w)[1]
MaxLevel(w) == SortedOf(w)[Len(w)]

\* __is_tail_larger_than_front
IsTailLargerThanFront(w, front, tail) ==
    IF Len(w) < front + tail THEN FALSE
    ELSE MinLevel(TailOf(w, tail)) >= MaxLevel(FrontOf(w, front))

\* tail_median / front_median >= multiple, on the floating-point numbers a
\* frame holds: x / 0 is inf for x > 0, -inf for x < 0 and nan for x = 0,
\* and nan >= multiple is False.
QuotientAtLeast(tm, fm, multiple) ==
    LET a == tm[1] * fm[2]
        b == fm[1] * tm[2]
    IN  IF b > 0 THEN a >= multiple * b
        ELSE IF b < 0 THEN a <= multiple * b
        ELSE a > 0

\* tail_median >= multiple * front_median
ProductAtLeast(tm, fm, multiple) ==
    tm[1] * fm[2] >= multiple * fm[1] * tm[2]

\* __is_more_than_difference
IsMoreThanDifference(w, front, tail, multiple) ==
    IF Len(w) < front + tail THEN FALSE
    ELSE QuotientAtLeast(Median(TailOf(w, tail)), Median(FrontOf(w, front)),
                         multiple)

\* __is_in_time_range: len(self._data) is the number of columns.
IsInTimeRange(columns, maxLength, dt) ==
    IF columns < maxLength THEN FALSE
    ELSE /\ StartTime <= TimeOfDay(dt[1])
         /\ TimeOfDay(dt[1]) <= TimeOfDay(dt[Len(dt)])
         /\ TimeOfDay(dt[Len(dt)]) <= EndTime

\* __is_adding_action
IsAddingAction(w, dt, front, tail, useDifference, useTime, multiple, columns) ==
    /\ IsTailLargerThanFront(w, front, tail)
    /\ useDifference => IsMoreThanDifference(w, front, tail, multiple)
    /\ useTime => IsInTimeRange(columns, front + tail, dt)

\* __should_export
ShouldExport(last, now) ==
    \/ last = {}
    \/ \E l \in last : l + ExportDuration <= now

\* self.__lowest_record[key] = min(value, self.__lowest_record[key])
LatestRecord(v, lowest) == v
LowestRecord(v, lowest) == IF v <= lowest THEN v ELSE lowest

\* __add_consumed: consumed = self.__remain[key] - self.__lowest_record[key]
ConsumedBackwards(remain, lowest) == lowest - remain
Consumed(remain, lowest) == remain - lowest

\* The loop of process over the rows of the column: st holds the windows,
\* the levels, the time of the last export and what was done at each
\* non-null sample (the levels and the last export as the sample found
\* them and as it left them, and what it emitted); the loop ends where a
\* row raises.
RECURSIVE ConsumptionRows(_, _, _)
ConsumptionRows(st, rows, cfg) ==
    IF rows = <<>> \/ st.raised THEN st
    ELSE LET t == Head(rows)[1]
             c == Head(rows)[2]
             front == cfg.front
             tail == cfg.tail
             L == front + tail
             w == Push(L, st.data, c)
             dt == Push(L, st.dt, t)
             low == LowestRecord(2 * c[1], st.lowest)
             adding == IsAddingAction(w, dt, front, tail, cfg.useDifference,
                                      cfg.useTime, cfg.multiple, cfg.columns)
             kind == IF Len(w) < L THEN "short"
                     ELSE IF adding THEN "add"
                     ELSE IF ShouldExport(st.last, t) THEN "export"
                     ELSE "quiet"
             remain == IF kind = "add" THEN Twice(Median(TailOf(w, tail)))
                       ELSE IF kind = "export" THEN low
                       ELSE st.remain
             lowest == IF kind = "add" THEN Twice(Median(TailOf(w, tail)))
                       ELSE low
             last == IF kind \in {"add", "export"} THEN {t} ELSE st.last
             emitted == IF kind \in {"add", "export"}
                        THEN <<Consumed(st.remain, low)>> ELSE <<>>
             entry == [at |-> t, data |-> w, dt |-> dt, kind |-> kind,
                       remain |-> st.remain, lowest |-> low,
                       last |-> st.last, before |-> st.lowest,
                       emitted |-> emitted, remainAfter |-> remain,
                       lowestAfter |-> lowest, lastAfter |-> last]
             failed == [entry EXCEPT !.kind = "raised", !.lowest = st.lowest,
                                     !.emitted = <<>>,
                                     !.remainAfter = st.remain,
                                     !.lowestAfter = st.lowest,
                                     !.lastAfter = st.last]
             next ==
               IF IsNa(c) THEN st
               ELSE IF st.status = "noClock" THEN
                   [st EXCEPT !.data = w, !.raised = TRUE,
                              !.trace = Append(@, [failed EXCEPT
                                                      !.dt = st.dt])]
               ELSE IF st.status = "noLevel" THEN
                   [st EXCEPT !.data = w, !.dt = dt, !.raised = TRUE,
                              !.trace = Append(@, failed)]
               ELSE [data |-> w, dt |-> dt, status |-> st.status,
                     raised |-> FALSE, remain |-> remain, lowest |-> lowest,
                     last |-> last, trace |-> Append(st.trace, entry)]
         IN  ConsumptionRows(next, Tail(rows), cfg)

\* What the first call of process does before its loop: the windows are
\* made, and the levels start at the value of the row labelled 0, which
\* dropna() has removed when that value is null and which an empty batch
\* has not.
FirstStatus(rows) ==
    IF rows = <<>> THEN "noClock"
    ELSE IF IsNa(rows[1][2]) THEN "noLevel"
    ELSE "ready"

\* BatchConsumptionFilter.process(data).
ConsumptionProcess(rows) ==
    /\ bcCalls < MaxCalls
    /\ RowsGoUp(bcNow, rows)
    /\ LET first == bcStatus = "new"
           status == IF first THEN FirstStatus(rows) ELSE bcStatus
           first2 == IF first /\ status = "ready" THEN 2 * rows[1][2][1]
                     ELSE bcRemain
           st0 == [data |-> bcData, dt |-> bcDatetime, status |-> status,
                   raised |-> first /\ status # "ready",
                   remain |-> first2,
                   lowest |-> IF first /\ status = "ready" THEN first2
                              ELSE bcLowest,
                   last |-> bcLastExport, trace |-> <<>>]
           st == ConsumptionRows(st0, rows,
                     [front |-> bcFront, tail |-> bcTail,
                      useDifference |-> bcUseDifference,
                      useTime |-> bcUseTime, multiple |-> bcMultiple,
                      columns |-> bcColumns])
       IN  /\ bcStatus' = status
           /\ bcData' = st.data
           /\ bcDatetime' = st.dt
           /\ bcRemain' = st.remain
           /\ bcLowest' = st.lowest
           /\ bcLastExport' = st.last
           /\ bcTrace' = st.trace
           /\ bcOutcome' = IF st.raised THEN "raised" ELSE "returned"
    /\ bcNow' = IF rows = <<>> THEN bcNow ELSE rows[Len(rows)][1]
    /\ bcCalls' = bcCalls + 1
    /\ UNCHANGED <<bcFront, bcTail, bcUseDifference, bcUseTime, bcMultiple,
                   bcColumns>>
    /\ UNCHANGED <<gatewayVars, sensorVars, workerVars, fanoutVars,
                   pipelineVars, readVars, windowVars, statsVars,
                   accumulateVars, frameVars, gateVars, copyVars, tcpVars>>

\* BatchConsumptionFilter.__init__.
InitConsumptionWith(ft, methods, multiple, columns) ==
    /\ bcFront = ft[1]
    /\ bcTail = ft[2]
    /\ bcUseDifference = methods[1]
    /\ bcUseTime = methods[2]
    /\ bcMultiple = multiple
    /\ bcColumns = columns
    /\ bcStatus = "new"
    /\ bcData = <<>>
    /\ bcDatetime = <<>>
    /\ bcRemain = 0
    /\ bcLowest = 0
    /\ bcLastExport = {}
    /\ bcNow = 0
    /\ bcTrace = <<>>
    /\ bcOutcome = "none"
    /\ bcCalls = 0

InitConsumption == InitConsumptionWith(<<1, 1>>, <<TRUE, FALSE>>, 2, 2)

(***************************************************************************)
(* The frame BatchConsumptionFilter.process returns, on a frame of a       *)
(* timestamp column and two value columns given to a new filter            *)
(* BatchConsumptionFilter(front=1, tail=1).  The timestamps of a frame     *)
(* never go down; two rows may bear the same one.                          *)
(***************************************************************************)
FrameColumns == {1, 2}
FrameCells == {NullCell, <<0>>, <<1>>}
FrameTimes == 1 .. 3
FrameConfig ==
    [front |-> 1, tail |-> 1, useDifference |-> TRUE, useTime |-> FALSE,
     multiple |-> 2, columns |-> 3]

\* The frames of at most n rows whose timestamps are `from` or later.
RECURSIVE FramesFrom(_, _)
FramesFrom(from, n) ==
    IF n = 0 THEN {<<>>}
    ELSE {<<>>} \cup
         UNION {{<<<<t, a, b>>>> \o rest :
                    a \in FrameCells, b \in FrameCells,
                    rest \in FramesFrom(t, n - 1)} :
                t \in {u \in FrameTimes : u >= from}}

\* The timestamps and the values of one value column of a frame.
ColumnRows(batch, k) ==
    [i \in DOMAIN batch |-> <<batch[i][1], batch[i][k + 1]>>]

\* What the row loop emits for one column, in the order of the rows.
RECURSIVE EmissionsOf(_, _)
EmissionsOf(k, trace) ==
    IF trace = <<>> THEN <<>>
    ELSE (IF Head(trace).emitted = <<>> THEN <<>>
          ELSE <<<<k, Head(trace).at, Head(trace).emitted[1]>>>>)
         \o EmissionsOf(k, Tail(trace))

\* The index of the first row of result_dict that bears the timestamp, or 0.
IndexOf(result, t) ==
    IF \E i \in DOMAIN result : result[i][1] = t
    THEN CHOOSE i \in DOMAIN result :
             /\ result[i][1] = t
             /\ \A j \in 1 .. i - 1 : result[j][1] # t
    ELSE 0

\* __add_consumed: the value goes into the row of its timestamp, and into a
\* new last row, null in the other column, when there is none.
AddConsumed(result, k, t, v) ==
    IF IndexOf(result, t) # 0
    THEN [result EXCEPT ![IndexOf(result, t)][k + 1] = <<v>>]
    ELSE Append(result, [j \in 1 .. 3 |-> IF j = 1 THEN t
                                          ELSE IF j = k + 1 THEN <<v>>
                                          ELSE NullCell])

RECURSIVE AddAll(_, _)
AddAll(result, emitted) ==
    IF emitted = <<>> THEN result
    ELSE AddAll(AddConsumed(result, Head(emitted)[1], Head(emitted)[2],
                            Head(emitted)[3]), Tail(emitted))

\* sort_values(by=datetime_column_name) on rows of distinct timestamps.
RECURSIVE SortValues(_)
SortValues(result) ==
    IF result = <<>> THEN <<>>
    ELSE LET i == CHOOSE i \in DOMAIN result :
                      \A j \in DOMAIN result : result[i][1] <= result[j][1]
         IN  <<result[i]>> \o
             SortValues(SubSeq(result, 1, i - 1)
                        \o SubSeq(result, i + 1, Len(result)))

\* The row loop of a first call on one column whose first value is there.
FirstLoop(rows) ==
    ConsumptionRows([data |-> <<>>, dt |-> <<>>, status |-> "ready",
                     raised |-> FALSE, remain |-> 2 * rows[1][2][1],
                     lowest |-> 2 * rows[1][2][1], last |-> {},
                     trace |-> <<>>], rows, FrameConfig)

\* BatchConsumptionFilter.process(data), the first call of a filter.
ConsumptionFrameProcess ==
    /\ cfOutcome = "none"
    /\ IF \E k \in FrameColumns :
              FirstStatus(ColumnRows(cfBatch, k)) # "ready"
       THEN /\ cfOutcome' = "raised"
            /\ UNCHANGED <<cfEmitted, cfOut>>
       ELSE LET emitted ==
                    EmissionsOf(1, FirstLoop(ColumnRows(cfBatch, 1)).trace)
                    \o EmissionsOf(2, FirstLoop(ColumnRows(cfBatch, 2)).trace)
            IN  /\ cfEmitted' = emitted
                /\ cfOut' = SortValues(AddAll(<<>>, emitted))
                /\ cfOutcome' = "returned"
    /\ UNCHANGED cfBatch
    /\ UNCHANGED <<gatewayVars, sensorVars, workerVars, fanoutVars,
                   pipelineVars, readVars, windowVars, statsVars,
                   accumulateVars, consumptionVars, gateVars, copyVars,
                   tcpVars>>

InitConsumptionFrameWith(batch) ==
    /\ cfBatch = batch
    /\ cfEmitted = <<>>
    /\ cfOut = <<>>
    /\ cfOutcome = "none"

InitConsumptionFrame == InitConsumptionFrameWith(<<>>)

(***************************************************************************)
(* AutoFeederGateMQTTSensor (src/auto_feeder_gate_manager/__init__.py):    *)
(* the status of the gate and the adding-feed flag, under the messages the *)
(* sensor takes from its queue and the is_adding_feed calls of its users.  *)
(***************************************************************************)
GateMessages == {"Open", "Closed", "Manually open", "Manually closed"}
Payloads == GateMessages \cup {"Half open"}

\* The cases of `match receive_status` before `case _`.
RecognisedAlways(msg) == TRUE
Recognised(msg) == msg \in GateMessages

\* self.__status after a message
StatusAfter(msg, status) ==
    CASE msg = "Open" -> "OPEN"
      [] msg = "Closed" -> "CLOSED"
      [] msg = "Manually open" -> "MANUALLY_OPEN"
      [] msg = "Manually closed" -> "MANUALLY_CLOSED"
      [] OTHER -> status

\* self.__adding_feed after a message
AddingAfterAnyClosed(msg, status, adding) == msg = "Closed"
AddingAfter(msg, status, adding) ==
    CASE msg = "Closed" -> (status = "OPEN") \/ adding
      [] msg \in {"Open", "Manually open", "Manually closed"} -> FALSE
      [] OTHER -> adding

\* AutoFeederGateMQTTSensor.read_and_process with the message msg at the
\* head of the queue.  A known status ends in the gather of
\* notify_exporters and notify_pipelines, counted here as one notification;
\* an unknown one raises before it.
GateReadAndProcess(msg) ==
    /\ Len(gtLog) < MaxFed
    /\ msg \in Payloads
    /\ IF Recognised(msg)
       THEN /\ gtStatus' = StatusAfter(msg, gtStatus)
            /\ gtAdding' = AddingAfter(msg, gtStatus, gtAdding)
            /\ gtNotified' = gtNotified + 1
       ELSE UNCHANGED <<gtStatus, gtAdding, gtNotified>>
    /\ gtLog' = Append(gtLog,
                    [op |-> msg,
                     result |-> IF Recognised(msg) THEN "frame"
                                ELSE "ValueError",
                     status |-> gtStatus, adding |-> gtAdding,
                     statusAfter |-> gtStatus', addingAfter |-> gtAdding',
                     notified |-> gtNotified' - gtNotified])
    /\ UNCHANGED <<gatewayVars, sensorVars, workerVars, fanoutVars,
                   pipelineVars, readVars, windowVars, statsVars,
                   accumulateVars, consumptionVars, frameVars, copyVars,
                   tcpVars>>

\* AutoFeederGateMQTTSensor.is_adding_feed
IsAddingFeed ==
    /\ Len(gtLog) < MaxFed
    /\ gtAdding' = FALSE
    /\ gtLog' = Append(gtLog,
                    [op |-> "is_adding_feed",
                     result |-> IF gtAdding THEN "True" ELSE "False",
                     status |-> gtStatus, adding |-> gtAdding,
                     statusAfter |-> gtStatus, addingAfter |-> FALSE,
                     notified |-> 0])
    /\ UNCHANGED <<gtStatus, gtNotified>>
    /\ UNCHANGED <<gatewayVars, sensorVars, workerVars, fanoutVars,
                   pipelineVars, readVars, windowVars, statsVars,
                   accumulateVars, consumptionVars, frameVars, copyVars,
                   tcpVars>>

\* AutoFeederGateMQTTSensor.__init__
InitGate ==
    /\ gtStatus = "NO_MESSAGE"
    /\ gtAdding = FALSE
    /\ gtNotified = 0
    /\ gtLog = <<>>

(***************************************************************************)
(* The frames behind one batch (src/base/sensor/__init__.py): the sensor   *)
(* gives its exporters the batch itself and each pipeline                  *)
(* `data.copy(deep=True)`; a filter writes into the frame it is given, as  *)
(* MovingStdevFilter does, or returns a frame of its own, as               *)
(* BatchAverageFilter does.  A frame is known by what it held when it was  *)
(* read and by the pipelines that wrote into it since.                     *)
(***************************************************************************)
CopyPipelines == 1 .. NumPipelines
CopyExporters == 1 .. NumExporters
RawFrame == 0
Frames == 0 .. 2 * NumPipelines
FilterWays == {"in place", "new frame"}

\* The frame pipeline p is given: data.copy(deep=True) is a new object.
FrameShared(p) == RawFrame
FrameGiven(p) == p

\* The frame a filter of pipeline p makes for its result.
FrameMade(p) == NumPipelines + p

\* Sensor.notify_exporters and Sensor.notify_pipelines up to their gather:
\* the exporters' coroutines hold the batch, every pipeline task holds its
\* copy, and none of them has run yet.
NotifyWithCopies ==
    /\ cpPc = "read"
    /\ cpPc' = "notified"
    /\ cpRef' = [p \in CopyPipelines |-> FrameGiven(p)]
    /\ cpHeap' = [f \in Frames |->
                     IF \E p \in CopyPipelines : FrameGiven(p) = f /\ f # RawFrame
                     THEN cpHeap[RawFrame] ELSE cpHeap[f]]
    /\ UNCHANGED <<cpSteps, cpSeen>>
    /\ UNCHANGED <<gatewayVars, sensorVars, workerVars, fanoutVars,
                   pipelineVars, readVars, windowVars, statsVars,
                   accumulateVars, consumptionVars, frameVars, gateVars,
                   tcpVars>>

\* `data = await filter.process(data)` of Pipeline.run, for the next filter
\* of pipeline p.
CopyFilterProcess(p, way) ==
    /\ cpPc = "notified"
    /\ cpSteps[p] < MaxFilters
    /\ LET given == cpHeap[cpRef[p]]
           result == [given EXCEPT !.marks = Append(@, p)]
       IN  /\ cpSeen' = [cpSeen EXCEPT !.pipeline[p] = <<given>>]
           /\ IF way = "in place"
              THEN /\ cpHeap' = [cpHeap EXCEPT ![cpRef[p]] = result]
                   /\ UNCHANGED cpRef
              ELSE /\ cpHeap' = [cpHeap EXCEPT ![FrameMade(p)] = result]
                   /\ cpRef' = [cpRef EXCEPT ![p] = FrameMade(p)]
    /\ cpSteps' = [cpSteps EXCEPT ![p] = @ + 1]
    /\ UNCHANGED cpPc
    /\ UNCHANGED <<gatewayVars, sensorVars, workerVars, fanoutVars,
                   pipelineVars, readVars, windowVars, statsVars,
                   accumulateVars, consumptionVars, frameVars, gateVars,
                   tcpVars>>

\* exporter.export(data) of an exporter attached to the sensor.
CopyExport(e) ==
    /\ cpPc = "notified"
    /\ cpSeen.exporter[e] = <<>>
    /\ cpSeen' = [cpSeen EXCEPT !.exporter[e] = <<cpHeap[RawFrame]>>]
    /\ UNCHANGED <<cpHeap, cpRef, cpSteps, cpPc>>
    /\ UNCHANGED <<gatewayVars, sensorVars, workerVars, fanoutVars,
                   pipelineVars, readVars, windowVars, statsVars,
                   accumulateVars, consumptionVars, frameVars, gateVars,
                   tcpVars>>

\* `batch = DataFrame(self._data)` with the value read.
InitCopiesWith(v) ==
    /\ cpHeap = [f \in Frames |-> [value |-> v, marks |-> <<>>]]
    /\ cpRef = [p \in CopyPipelines |-> RawFrame]
    /\ cpSteps = [p \in CopyPipelines |-> 0]
    /\ cpSeen = [pipeline |-> [p \in CopyPipelines |-> <<>>],
                 exporter |-> [e \in CopyExporters |-> <<>>]]
    /\ cpPc = "read"

InitCopies == InitCopiesWith(0)

(***************************************************************************)
(* ModbusTCPBasedSensor.__read_holding_registers and                       *)
(* __read_input_registers (src/base/sensor/modbus.py): under the host's    *)
(* lock, the client is asked until its answer is neither None nor an       *)
(* ExceptionResponse.  The loop keeps no count; tcTries is kept for the    *)
(* properties only.                                                        *)
(***************************************************************************)
Devices == {"answers", "refuses"}
Response == "response"
ExceptionResponse == "ExceptionResponse"

\* What the device of sensor s can answer to one request.
AnswersOf(s) ==
    IF tcDevice[s] = "answers" THEN {Response, ExceptionResponse}
    ELSE {ExceptionResponse}

\* `while value is None or isinstance(value, ExceptionResponse)`.
AsksAgain(value) == value = None \/ value = ExceptionResponse

\* `async with self._lock:` of a register read, to its first suspension.
TCPBeginRead(s) ==
    /\ tcPc[s] = "between"
    /\ tcDone[s] < MaxCalls
    /\ tcLock' = LkAcquire(tcLock, s)
    /\ tcPc' = [tcPc EXCEPT ![s] =
                   IF LkCanTake(tcLock) THEN "exchange" ELSE "waiting"]
    /\ tcTries' = [tcTries EXCEPT ![s] = 0]
    /\ UNCHANGED <<tcDevice, tcReturned, tcDone>>
    /\ UNCHANGED <<gatewayVars, sensorVars, workerVars, fanoutVars,
                   pipelineVars, readVars, windowVars, statsVars,
                   accumulateVars, consumptionVars, frameVars, gateVars,
                   copyVars>>

\* acquire() resumes with its future's result set.
TCPLockGranted(s) ==
    /\ tcPc[s] = "waiting"
    /\ \E i \in DOMAIN tcLock.waiters :
          /\ tcLock.waiters[i].task = s
          /\ tcLock.waiters[i].st = "woken"
    /\ tcLock' = [locked |-> TRUE, waiters |-> RemoveWaiter(tcLock.waiters, s),
                  owner |-> s]
    /\ tcPc' = [tcPc EXCEPT ![s] = "exchange"]
    /\ UNCHANGED <<tcDevice, tcTries, tcReturned, tcDone>>
    /\ UNCHANGED <<gatewayVars, sensorVars, workerVars, fanoutVars,
                   pipelineVars, readVars, windowVars, statsVars,
                   accumulateVars, consumptionVars, frameVars, gateVars,
                   copyVars>>

\* The client's answer to one request: the loop asks again inside the
\* lock, or the block is left and the value returned.
TCPAnswer(s, value) ==
    /\ tcPc[s] = "exchange"
    /\ value \in AnswersOf(s)
    /\ tcTries' = [tcTries EXCEPT ![s] =
                      IF @ < MaxTries THEN @ + 1 ELSE @]
    /\ IF AsksAgain(value)
       THEN UNCHANGED <<tcPc, tcLock, tcReturned, tcDone>>
       ELSE /\ tcLock' = LkRelease(tcLock)
            /\ tcPc' = [tcPc EXCEPT ![s] = "between"]
            /\ tcReturned' = [tcReturned EXCEPT ![s] = value]
            /\ tcDone' = [tcDone EXCEPT ![s] = @ + 1]
    /\ UNCHANGED tcDevice
    /\ UNCHANGED <<gatewayVars, sensorVars, workerVars, fanoutVars,
                   pipelineVars, readVars, windowVars, statsVars,
                   accumulateVars, consumptionVars, frameVars, gateVars,
                   copyVars>>

\* Sensors built on one host, `self._lock = ...get_lock(host)`, no read yet.
InitTCPReadWith(devices) ==
    /\ tcDevice = devices
    /\ tcPc = [s \in Sensors |-> "between"]
    /\ tcLock = FreeLock
    /\ tcTries = [s \in Sensors |-> 0]
    /\ tcReturned = [s \in Sensors |-> None]
    /\ tcDone = [s \in Sensors |-> 0]

InitTCPRead == InitTCPReadWith([s \in Sensors |-> "answers"])

(***************************************************************************)
(* The sensors of an initialised gateway: app.py awaits the gateway        *)
(* managers' initialize (one create_connection at a time) before any       *)
(* sensor is built, and a sensor is built only on a registered connection. *)
(***************************************************************************)
InitRegistry ==
    /\ connections = [p \in Ports |-> IF p = "COM3" THEN 1 ELSE 2]
    /\ locks = [p \in Ports |-> IF p = "COM3" THEN 1 ELSE 2]
    /\ clientHost = <<"com3", "COM5">>
    /\ nLocks = 2
    /\ crPc = [c \in Callers |-> "idle"]
    /\ crPort = [c \in Callers |-> "COM3"]
    /\ crClient = [c \in Callers |-> NoneId]
    /\ crConnected = [c \in Callers |-> None]
    /\ crOutcome = [c \in Callers |-> None]
    /\ crCalls = 0
    /\ glOutcome = [op |-> None, port |-> "COM3", out |-> GetLock("COM3")]

Init ==
    /\ InitRegistry
    /\ link \in [Sensors -> Links]
    /\ \A s, t \in Sensors : s < t => LinkRank(link[s]) <= LinkRank(link[t])
    /\ client = [s \in Sensors |->
          IF link[s] \in Ports THEN GetConnection(link[s]).value ELSE NoneId]
    /\ curLock = [s \in Sensors |->
          IF link[s] \in Ports THEN NoneId ELSE TCPGetLock(link[s])]
    /\ pc = [s \in Sensors |-> "idle"]
    /\ row = [s \in Sensors |-> 1]
    /\ reg = [s \in Sensors |-> 1]
    /\ tries = [s \in Sensors |-> 0]
    /\ cancelReq = [s \in Sensors |-> FALSE]
    /\ diedAt = [s \in Sensors |-> None]
    /\ lockState = [l \in LockIds |-> FreeLock]
    /\ InitWorkers
    /\ InitFanout
    /\ InitPipeline
    /\ InitRead
    /\ InitWindow
    /\ InitStats
    /\ InitAccumulate
    /\ InitConsumption
    /\ InitConsumptionFrame
    /\ InitGate
    /\ InitCopies
    /\ InitTCPRead
    /\ fMgr = "simple"

Next ==
    \/ \E s \in Sensors : BeginBatch(s)
    \/ \E s \in Sensors : LockGranted(s)
    \/ \E s \in Sensors,
          out \in {"ok", "errval", "caught", "retry", "crash"} :
          ExchangeDone(s, out)
    \/ \E s \in Sensors, raised \in BOOLEAN : ReportDone(s, raised)
    \/ \E s \in Sensors, raised \in BOOLEAN : ReportContDone(s, raised)
    \/ \E s \in Sensors : RowSleepDone(s)
    \/ \E s \in Sensors, raised \in BOOLEAN : FanoutDone(s, raised)
    \/ \E s \in Sensors : Cancel(s)
    \/ \E s \in Sensors : DeliverCancel(s)

Spec == Init /\ [][Next]_vars

(***************************************************************************)
(* Properties of the port locks.                                           *)
(***************************************************************************)

\* The sensors whose register exchange is in flight on link p.
InFlight(p) == {s \in Sensors : pc[s] = "exchange" /\ link[s] = p}

\* The sensors using link p that another sensor's hold keeps waiting.
Contended(p) == {s \in Sensors : pc[s] = "waiting" /\ link[s] = p}

\* C1: on every physical link at most one register exchange is in flight
\* at any time, whatever the interleaving of the sensors' read loops.
C1_MutualExclusion == \A p \in Links : Cardinality(InFlight(p)) <= 1

\* C1 witness: an exchange is in flight while another sensor of the same
\* port waits for the lock.
C1_Witness ==
    \E p \in Ports : InFlight(p) # {} /\ Contended(p) # {}

\* C3: a lock is locked only while its owner is alive and inside its
\* critical section (so it was released when the owner finished, failed or
\* was cancelled); a terminated task is in no lock's queue; and a free lock
\* with waiters has handed the wake-up to its first waiter, so a failed or
\* cancelled sensor leaves no other sensor stuck.
C3_LockReleasedOnEveryExit ==
    \A l \in LockIds :
        /\ lockState[l].locked =>
              /\ lockState[l].owner \in Sensors
              /\ pc[lockState[l].owner] \notin Terminated
              /\ pc[lockState[l].owner] = "exchange"
              /\ curLock[lockState[l].owner] = l
        /\ \A i \in DOMAIN lockState[l].waiters :
              pc[lockState[l].waiters[i].task] = "waiting"
        /\ (~lockState[l].locked /\ lockState[l].waiters # <<>>) =>
              lockState[l].waiters[1].st # "pending"

\* C3 witness: a sensor was cancelled inside its critical section and
\* another sensor of the same port has since taken the lock it held.
C3_Witness ==
    \E s, t \in Sensors :
        /\ s # t
        /\ pc[s] = "cancelled" /\ diedAt[s] = "exchange"
        /\ curLock[t] = curLock[s]
        /\ pc[t] = "exchange"
        /\ lockState[curLock[s]].owner = t

\* C4 as claimed: every hold of a lock covers exactly one exchange and
\* never the inter-sample sleep or the fan-out.
C4_OneExchangePerHold ==
    /\ \A s \in Sensors : tries[s] <= 1
    /\ \A l \in LockIds :
          lockState[l].locked => pc[lockState[l].owner] = "exchange"

\* C4 amended: a hold by an RTU sensor covers exactly one exchange; a hold
\* by a TCP sensor covers the exchanges (one or more) of one register
\* read's retry loop; no sensor holds a lock while it sleeps, reports or
\* fans out.
C4_HoldCoversOneRead ==
    /\ \A s \in Sensors :
          /\ IsRTU(s) => tries[s] <= 1
          /\ (pc[s] = "exchange") <=> (tries[s] >= 1)
          /\ pc[s] = "exchange" =>
                /\ lockState[curLock[s]].locked
                /\ lockState[curLock[s]].owner = s
    /\ \A l \in LockIds :
          lockState[l].locked =>
              pc[lockState[l].owner] \notin
                  {"idle", "sleepRow", "fanout", "report", "reportCont",
                   "waiting"}

\* C4 witness: an RTU sensor is past its first register's exchange and
\* holds the lock again for the second, and a TCP sensor is retrying
\* under one hold.
C4_Witness ==
    /\ \E s \in Sensors :
          IsRTU(s) /\ reg[s] = 2 /\ pc[s] = "exchange" /\ tries[s] = 1
    /\ \E s \in Sensors : ~IsRTU(s) /\ pc[s] = "exchange" /\ tries[s] = 2

(***************************************************************************)
(* The registry alone, under callers of create_connection that may overlap *)
(* while suspended in connect(), and callers of get_lock/get_connection.   *)
(***************************************************************************)
InitSensorsUnbuilt ==
    /\ link = [s \in Sensors |-> "COM3"]
    /\ client = [s \in Sensors |-> NoneId]
    /\ curLock = [s \in Sensors |-> NoneId]
    /\ pc = [s \in Sensors |-> "idle"]
    /\ row = [s \in Sensors |-> 1]
    /\ reg = [s \in Sensors |-> 1]
    /\ tries = [s \in Sensors |-> 0]
    /\ cancelReq = [s \in Sensors |-> FALSE]
    /\ diedAt = [s \in Sensors |-> None]
    /\ lockState = [l \in LockIds |-> FreeLock]

InitGateway ==
    /\ connections = [p \in Ports |-> NoneId]
    /\ locks = [p \in Ports |-> NoneId]
    /\ clientHost = <<>>
    /\ nLocks = 0
    /\ crPc = [c \in Callers |-> "idle"]
    /\ crPort = [c \in Callers |-> "COM3"]
    /\ crClient = [c \in Callers |-> NoneId]
    /\ crConnected = [c \in Callers |-> None]
    /\ crOutcome = [c \in Callers |-> None]
    /\ crCalls = 0
    /\ glOutcome = [op |-> None, port |-> "COM3", out |-> GetLock("COM3")]
    /\ InitSensorsUnbuilt
    /\ InitWorkers
    /\ InitFanout
    /\ InitPipeline
    /\ InitRead
    /\ InitWindow
    /\ InitStats
    /\ InitAccumulate
    /\ InitConsumption
    /\ InitConsumptionFrame
    /\ InitGate
    /\ InitCopies
    /\ InitTCPRead
    /\ fMgr = "simple"

NextGateway ==
    \/ \E c \in Callers, p \in RawPorts : CreateBegin(c, p)
    \/ \E c \in Callers, connected \in BOOLEAN : CreateFinish(c, connected)
    \/ \E p \in RawPorts : GetLockCall(p)
    \/ \E p \in RawPorts : GetConnectionCall(p)

SpecGateway == InitGateway /\ [][NextGateway]_vars

\* C2 as claimed: once a port has an entry, its connection handle and its
\* mutex never change, whatever create_connection calls follow or overlap.
C2_OneEntryPerPort ==
    [][\A p \in Ports :
          locks[p] # NoneId =>
              /\ locks'[p] = locks[p]
              /\ connections'[p] = connections[p]]_vars

\* C5: a create_connection whose connect() answers False ends with
\* ConnectionError and changes no entry of the registry.
C5_FailedConnectLeavesRegistry ==
    [][\A c \in Callers :
          (crPc[c] = "connecting" /\ crPc'[c] = "idle"
              /\ crConnected'[c] = "False") =>
              /\ crOutcome'[c] = "ConnectionError"
              /\ connections' = connections
              /\ locks' = locks
              /\ nLocks' = nLocks]_vars

\* C5 witness: a call for COM5 failed, COM5 has no entry, and the entry
\* COM3 got from an earlier call is still there.
C5_Witness ==
    \E c \in Callers :
        /\ crOutcome[c] = "ConnectionError"
        /\ crConnected[c] = "False"
        /\ crPort[c] = "COM5"
        /\ GetConnection("COM5").value = NoneId
        /\ GetLock("COM5").value = NoneId
        /\ GetConnection("com3").value # NoneId
        /\ GetLock("com3").value # NoneId

\* C6 as claimed: get_lock for a port that was never connected raises
\* NotFound.
C6_GetLockRaisesNotFound ==
    (glOutcome.op = "get_lock" /\ locks[Upper(glOutcome.port)] = NoneId) =>
        glOutcome.out.kind = "raise"

\* C6 amended: get_lock never raises; for a port that was never connected
\* it returns None, the absent value.
C6_GetLockReturnsNone ==
    glOutcome.op = "get_lock" =>
        /\ glOutcome.out.kind = "return"
        /\ locks[Upper(glOutcome.port)] = NoneId =>
              glOutcome.out.value = NoneId

\* C6 witness: get_lock was asked for COM5, never connected, while COM3
\* has its lock.
C6_Witness ==
    /\ glOutcome.op = "get_lock"
    /\ glOutcome.port = "COM5"
    /\ locks["COM5"] = NoneId
    /\ locks["COM3"] # NoneId
    /\ glOutcome.out.value = NoneId

(***************************************************************************)
(* Workers and their managers alone: any sequence of set_manager and       *)
(* notify_manager calls.                                                   *)
(***************************************************************************)
InitWorker ==
    /\ InitRegistry
    /\ InitSensorsUnbuilt
    /\ InitWorkers
    /\ InitFanout
    /\ InitPipeline
    /\ InitRead
    /\ InitWindow
    /\ InitStats
    /\ InitAccumulate
    /\ InitConsumption
    /\ InitConsumptionFrame
    /\ InitGate
    /\ InitCopies
    /\ InitTCPRead
    /\ fMgr = "simple"

NextWorker ==
    \/ \E w \in Workers, arg \in Managers \cup {None, "notAManager"} :
          SetManagerCall(w, arg)
    \/ \E w \in Workers, content \in Contents :
          NotifyManagerCall(w, content)

SpecWorker == InitWorker /\ [][NextWorker]_vars

\* C7 as claimed: notify_manager on a worker with no manager attached
\* never raises.
C7_NoManagerIsNoop ==
    (lastCall.op = "notify_manager" /\ lastCall.mgr \notin Managers) =>
        lastCall.out.kind = "return"

\* C8 as claimed: the attached manager is the argument of the last
\* set_manager call that passed a Manager or None, None clearing it.
C8_LastWriteWins ==
    \A w \in Workers :
        lastSet[w] \in Managers \cup {None} => Attached(w) = lastSet[w]

\* C8 amended: the attached manager is the last Manager passed to
\* set_manager (none if there was none); set_manager(None) and a call that
\* fails type_check leave the attached manager as it was.
C8_LastManagerWins ==
    /\ \A w \in Workers : Attached(w) = lastMgrSet[w]
    /\ (lastCall.op = "set_manager" /\ lastCall.arg \notin Managers) =>
          wManager[lastCall.worker] = lastCall.mgr

\* C8 witness: a worker got a manager, then set_manager(None), and still
\* has that manager.
C8_Witness ==
    /\ lastCall.op = "set_manager"
    /\ lastCall.arg = None
    /\ lastCall.mgr \in Managers
    /\ Attached(lastCall.worker) = lastCall.mgr

\* C9: when the attached manager's handle raises for a report, that error
\* is what notify_manager raises to its caller, and handle was invoked
\* once.
C9_HandleErrorPropagatesOnce ==
    (/\ lastCall.op = "notify_manager"
     /\ lastCall.mgr \in Managers
     /\ Handle(lastCall.mgr, lastCall.arg).kind = "raise") =>
        /\ lastCall.out.kind = "raise"
        /\ lastCall.out.value = Handle(lastCall.mgr, lastCall.arg).value
        /\ lastCall.out.calls = 1

\* C9 witness: a generator whose manager raises the report's TimeoutError
\* (test_generator) has notified it.
C9_Witness ==
    /\ lastCall.op = "notify_manager"
    /\ lastCall.worker = "generator"
    /\ lastCall.mgr = "raising"
    /\ lastCall.arg = "TimeoutError"
    /\ lastCall.out = [kind |-> "raise", value |-> "TimeoutError", calls |-> 1]

(***************************************************************************)
(* The fan-out alone: batch after batch of one sensor, under every manager.*)
(***************************************************************************)
InitFanoutSpec ==
    /\ InitRegistry
    /\ InitSensorsUnbuilt
    /\ InitWorkers
    /\ InitFanout
    /\ InitPipeline
    /\ InitRead
    /\ InitWindow
    /\ InitStats
    /\ InitAccumulate
    /\ InitConsumption
    /\ InitConsumptionFrame
    /\ InitGate
    /\ InitCopies
    /\ InitTCPRead
    /\ fMgr \in FanoutManagers

NextFanout ==
    \/ StartFanout
    \/ \E c \in Notifiers : NotifierStart(c)
    \/ \E t \in Sinks, out \in {"io", "yield", "done", "raised"} :
          SinkStart(t, out)
    \/ \E t \in Sinks : IOComplete(t)
    \/ \E t \in Sinks, out \in {"done", "raised"} : SinkResume(t, out)
    \/ \E t \in Sinks : SinkCancelled(t)
    \/ \E c \in Notifiers, emailRaises \in BOOLEAN :
          NotifierReports(c, emailRaises)
    \/ \E c \in Notifiers : NotifierCancelled(c)
    \/ ReadLoopResumes

SpecFanout == InitFanoutSpec /\ [][NextFanout]_vars

\* C10: in one fan-out every exporter's export and every pipeline's run is
\* started exactly once with the batch, and none of them is kept from
\* running to completion because a sibling raised: no export()/run() task
\* ends cancelled, and one that has ended had started once.
C10_FanoutIsolatesFailures ==
    \A t \in Sinks :
        /\ started[t] <= 1
        /\ Finished(tpc[t]) => started[t] = 1
        /\ tpc[t] # "cancelled"

\* The exporters whose export() raised in the current fan-out.
FailedExporters == {t \in Range(ExportTasks) : tpc[t] = "raised"}

\* C11: with a manager attached, once notify_exporters has ended the
\* manager's handle has been called exactly once per exporter that failed
\* in the fan-out, whatever the handling of another failure came to.
C11_OneReportPerFailure ==
    (fMgr # "unset" /\ Finished(tpc[NotifyExporters])) =>
        handled[NotifyExporters] = Cardinality(FailedExporters)

\* C12: an exporter's exception never ends the sensor's read loop: as long
\* as no pipeline's run has raised, whatever the exporters did, the read
\* loop's task has neither failed nor been cancelled.
C12_ExporterErrorKeepsLoop ==
    (\A t \in Range(RunTasks) : tpc[t] # "raised") =>
        tpc[ReadLoop] \notin {"failed", "cancelled"}

(***************************************************************************)
(* One pipeline alone: run after run, with every list of filters.          *)
(***************************************************************************)
InitPipelineSpec ==
    /\ InitRegistry
    /\ InitSensorsUnbuilt
    /\ InitWorkers
    /\ InitFanout
    /\ InitRead
    /\ InitWindow
    /\ InitStats
    /\ InitAccumulate
    /\ InitConsumption
    /\ InitConsumptionFrame
    /\ InitGate
    /\ InitCopies
    /\ InitTCPRead
    /\ fMgr = "simple"
    /\ \E fs \in SeqsUpTo(FilterKinds, MaxFilters) : InitPipelineWith(fs)

NextPipeline ==
    \/ \E batch \in Batches : PipelineRun(batch)
    \/ \E err \in ProcessErrors \cup {None} : FilterProcess(err)
    \/ \E raised \in BOOLEAN : FilterNotify(raised)

SpecPipeline == InitPipelineSpec /\ [][NextPipeline]_vars

RECURSIVE Composed(_, _, _)
\* f_i(...f_2(f_1(batch))) for the first i filters of fs.
Composed(fs, i, batch) ==
    IF i = 0 THEN batch ELSE Process(fs[i], Composed(fs, i - 1, batch))

InFlightTasks ==
    {t \in Notifiers \cup Sinks : tpc[t] # "none" /\ ~Finished(tpc[t])}

\* C15: the read loop is back at its read (about to sleep and read batch
\* n+1) only when every exporter and every pipeline of batch n has ended:
\* no task of the fan-out is in flight or queued then, and no export() or
\* run() began twice for one batch.
C15_BatchesInReadOrder ==
    /\ tpc[ReadLoop] = "idle" => (InFlightTasks = {} /\ ready = <<>>)
    /\ \A t \in Sinks : started[t] <= 1

\* C15 witness: the read loop is back at its read after a batch whose
\* exporters and pipelines all ran, one pipeline having failed and been
\* reported.
C15_Witness ==
    /\ tpc[ReadLoop] = "idle"
    /\ \A t \in Sinks : started[t] = 1
    /\ tpc[RunTasks[1]] = "raised"
    /\ handled[NotifyPipelines] = 1

(***************************************************************************)
(* One Modbus sensor alone, RTU or TCP, with a manager of every kind:      *)
(* read_and_process call after call, with every outcome of every exchange. *)
(***************************************************************************)
InitReadSpec ==
    /\ InitRegistry
    /\ InitSensorsUnbuilt
    /\ InitWorkers
    /\ InitFanout
    /\ InitPipeline
    /\ InitWindow
    /\ InitStats
    /\ InitAccumulate
    /\ InitConsumption
    /\ InitConsumptionFrame
    /\ InitGate
    /\ InitCopies
    /\ InitTCPRead
    /\ fMgr = "simple"
    /\ \E k \in SensorKinds, m \in FanoutManagers : InitReadWith(k, m)

NextRead ==
    \/ ReadBegin
    \/ \E out \in {"ok", "retry", "errval", "caught", "crash"} :
          ReadExchange(out)
    \/ \E emailRaises \in BOOLEAN : ReadReportsCaught(emailRaises)
    \/ \E emailRaises \in BOOLEAN : ReadReportsErrVal(emailRaises)
    \/ ReadRowSleep
    \/ ReadFrame
    \/ \E how \in {"return", "raise", "cancelled"} : ReadFanoutEnds(how)

SpecRead == InitReadSpec /\ [][NextRead]_vars

\* C16: every batch a Modbus sensor hands to its exporters and pipelines
\* has the same number of rows in every column, the batch length, whatever
\* mix of successful and error responses the reads returned: a register
\* whose read gave an exception object leaves its list short, and
\* DataFrame(self._data) then raises instead of building a ragged batch.
C16_BatchColumnsAgree ==
    \A b \in rdBatch : \A c \in Columns : b[c] = BatchLen

\* A batch is handed over after error responses among its reads.
C16_Witness == rdPc = "fanout" /\ rdErrVals > 0 /\ rdHanded = 1

\* An RTU exchange of the current call raised and its report is over.
FailedExchangeReported == rdFailedAt # 0 /\ rdPc # "report"

\* The Reports made for the raised exchange: an RTU sensor reports every
\* exception object it read earlier in the call once, the rest of the
\* call's Reports are for the exchange that raised.
ReportsOfFailure == rdReports - rdErrVals

InitWindowSpec ==
    /\ InitRegistry
    /\ InitSensorsUnbuilt
    /\ InitWorkers
    /\ InitFanout
    /\ InitPipeline
    /\ InitRead
    /\ InitStats
    /\ InitAccumulate
    /\ InitConsumption
    /\ InitConsumptionFrame
    /\ InitGate
    /\ InitCopies
    /\ InitTCPRead
    /\ fMgr = "simple"
    /\ \E k \in WindowKinds, L \in Capacities : InitWindowWith(k, L)

WindowBatches == SeqsUpTo(Cells, MaxRows) \ {<<>>}

NextWindow ==
    \/ \E cs \in WindowBatches : FifoProcess(cs)
    \/ \E cs \in WindowBatches : MovingProcess(cs)

SpecWindow == InitWindowSpec /\ [][NextWindow]_vars

\* The last n items of a sequence.
LastN(s, n) == SubSeq(s, Len(s) - n + 1, Len(s))

MinOf(a, b) == IF a <= b THEN a ELSE b

\* Every deque is the tail of what was pushed into it, within capacity.
WindowIsLastPushed ==
    \A k \in {"t", "v"} :
        /\ wfData[k] =
             LastN(wfPushed[k], MinOf(Len(wfPushed[k]), wfLength))
        /\ Len(wfData[k]) <= wfLength

\* C18: a FIFO window of capacity L, after the batches so far pushed m
\* values, holds exactly the last min(m, L) of them, oldest first; its
\* length never exceeds L, and L is never changed after construction.
C18_WindowHoldsLastValues ==
    []WindowIsLastPushed /\ [][wfLength' = wfLength]_vars

\* More values than the capacity were pushed, over several batches.
C18_Witness ==
    /\ wfKind = "Fifo" /\ wfCalls >= 2
    /\ Len(wfPushed.v) > wfLength
    /\ Len(wfData.v) = wfLength

\* What C19 asks of one row handled by a moving filter.
RowAsSpecified(r) ==
    IF IsNa(r.in)
    THEN /\ r.after = r.before
         /\ r.out = IF r.before = <<>> THEN NullCell
                    ELSE Stat(wfKind, r.before)
    ELSE /\ r.after = IF Len(r.before) < wfLength
                      THEN Append(r.before, r.in)
                      ELSE Append(Tail(r.before), r.in)
         /\ r.out = Stat(wfKind, r.after)

\* C19: MovingAverage and MovingMedian, row by row across the batches: a
\* null with an empty window gives null; a null with a non-empty window
\* gives the mean/median of the window and inserts nothing; a non-null
\* value is inserted, evicting the oldest value of a full window, and the
\* output is the mean/median of the updated window.  Each row starts from
\* the window the row before left, whichever batch that row was in.
C19_MovingRowByRow ==
    wfKind \in MovingKinds =>
        /\ \A i \in DOMAIN wfOut :
              /\ RowAsSpecified(wfOut[i])
              /\ wfOut[i].before = IF i = 1 THEN <<>> ELSE wfOut[i - 1].after
        /\ wfOut # <<>> => wfData.v = wfOut[Len(wfOut)].after

\* Over several batches a filter met a null on an empty window, a null on
\* a non-empty window and a value that evicted the oldest one.
C19_Witness ==
    /\ wfKind \in MovingKinds /\ wfCalls >= 2
    /\ \E i, j, k \in DOMAIN wfOut :
          /\ IsNa(wfOut[i].in) /\ wfOut[i].before = <<>>
          /\ IsNa(wfOut[j].in) /\ wfOut[j].before # <<>>
          /\ ~IsNa(wfOut[k].in) /\ Len(wfOut[k].before) = wfLength
          /\ wfOut[k].out # Stat(wfKind, wfOut[k].before)

\* A fresh filter of the same class and capacity fed the rows so far as
\* one batch.
InOneBatch == MovingRows(wfKind, wfLength, <<>>, wfIn, <<>>)

\* C20: a MovingAverage or MovingMedian filter of capacity L fed N <= L
\* scalars one row per batch gives, row for row, the outputs and the final
\* window of the same filter fed the whole sequence as one batch; every
\* returned batch has one row per input row and the input's timestamps.
C20_RowBatchesAsOneBatch ==
    wfKind \in MovingKinds =>
        /\ (wfCalls = Len(wfIn) /\ Len(wfIn) <= wfLength) =>
              /\ Column(wfOut, "out") = Column(InOneBatch.out, "out")
              /\ wfData.v = InOneBatch.window
        /\ Len(wfRet) = Len(wfBatch)
        /\ Column(wfRet, "t") = Column(wfBatch, "t")

\* Several rows, one per batch, within the capacity, with a statistic of
\* more than one value among the outputs.
C20_Witness ==
    /\ wfKind \in MovingKinds
    /\ wfCalls = Len(wfIn) /\ wfCalls >= 2 /\ Len(wfIn) <= wfLength
    /\ Len(wfData.v) >= 2
    /\ Len(wfRet) = 1

(***************************************************************************)
(* One statistics filter alone: a batch filter on every batch of up to     *)
(* MaxBatchRows rows, or a MovingStdev filter of every capacity on batch   *)
(* after batch.                                                            *)
(***************************************************************************)
\* Batches of one row more, whose column b holds a value in every row: a
\* null of column a can then stand beside three values of its column.
LongStatRows ==
    {[i \in 1 .. MaxBatchRows + 1 |-> [a |-> f[i], b |-> <<1>>]] :
        f \in [1 .. MaxBatchRows + 1 -> StatCells]}

StatRows ==
    UNION {[1 .. k -> [a : StatCells, b : StatCells]] : k \in 0 .. MaxBatchRows}
    \cup LongStatRows

StatBatches == {[i \in DOMAIN rs |-> [t |-> i, a |-> rs[i].a, b |-> rs[i].b]] :
                   rs \in StatRows}

InitStatsSpec ==
    /\ InitRegistry
    /\ InitSensorsUnbuilt
    /\ InitWorkers
    /\ InitFanout
    /\ InitPipeline
    /\ InitRead
    /\ InitAccumulate
    /\ InitConsumption
    /\ InitConsumptionFrame
    /\ InitGate
    /\ InitCopies
    /\ InitTCPRead
    /\ fMgr = "simple"
    /\ \E k \in StatsKinds, n \in StdevRanges, remove \in BOOLEAN :
          /\ k = "BatchAverage" => (n = 1 /\ ~remove)
          /\ IF k = "MovingStdev"
             THEN /\ InitStatsWith(k, n, remove, <<>>)
                  /\ \E L \in Capacities : InitWindowWith(k, L)
             ELSE /\ \E batch \in StatBatches :
                        InitStatsWith(k, n, remove, batch)
                  /\ InitWindow

StatWindowBatches == SeqsUpTo(StatCells, MaxRows) \ {<<>>}

NextStats ==
    \/ BatchFilterProcess
    \/ \E cs \in StatWindowBatches : MovingStdevProcess(cs)

SpecStats == InitStatsSpec /\ [][NextStats]_vars

\* C21: MovingStdev returns a value as it came whenever the column's
\* window holds fewer than 3 samples once the value is in it, and
\* BatchStdev returns a column's values as they came whenever the column
\* has fewer than 3 non-null values in the batch, with remove false and
\* with remove true.
C21_StdevFloor ==
    /\ sdKind = "MovingStdev" =>
          \A i \in DOMAIN wfOut :
              Len(wfOut[i].after) < 3 => wfOut[i].out = wfOut[i].in
    /\ (sdKind = "BatchStdev" /\ sdOut.kind = "frame") =>
          \A k \in {"a", "b"} :
              Len(DropNa(Column(sdIn, k))) < 3 =>
                  Column(sdOut.rows, k) = Column(sdIn, k)

\* A MovingStdev filter with room for three samples has returned the first
\* two values it was given, over two batches.
C21_Witness ==
    /\ sdKind = "MovingStdev" /\ wfLength >= 3
    /\ Len(wfPushed.v) = 2 /\ wfCalls = 2
    /\ wfOut[Len(wfOut)].out = <<6>>

\* What C22 asks of a cell of a column with at least 3 values: a null stays
\* null, a value in range stays, a value out of range becomes null or the
\* nearer bound.
CellAsSpecified(c, st, n, remove) ==
    CASE IsNa(c) -> c
      [] InRange(c, st, n) -> c
      [] remove -> NullCell
      [] BelowLower(c, st) -> LowerBound(st)
      [] OTHER -> UpperBound(st)

\* C22: BatchStdev treats each value column on its own: a column with at
\* least 3 non-null values has its out-of-range values clamped to the
\* nearer bound (remove false) or set to null (remove true) by its own mean
\* and standard deviation, and a column with fewer is returned as it came,
\* whatever the other column holds.
C22_ColumnsIndependent ==
    (sdKind = "BatchStdev" /\ sdOut.kind = "frame") =>
        \A k \in {"a", "b"} :
            LET col == Column(sdIn, k)
                vals == DropNa(col)
            IN  IF Len(vals) >= 3
                THEN \A i \in DOMAIN col :
                        sdOut.rows[i][k] =
                            CellAsSpecified(col[i], StatsOf(vals), sdN, sdRemove)
                ELSE Column(sdOut.rows, k) = col

\* What C23 asks of one row handled by a MovingStdev filter.
StdevRowAsSpecified(r) ==
    IF IsNa(r.in)
    THEN r.out = NullCell /\ r.after = r.before
    ELSE /\ r.after = IF Len(r.before) < wfLength
                      THEN Append(r.before, r.in)
                      ELSE Append(Tail(r.before), r.in)
         /\ Len(r.after) >= 3 =>
               r.out = CASE InRange(r.in, StatsOf(r.after), sdN) -> r.in
                         [] sdRemove -> NullCell
                         [] BelowLower(r.in, StatsOf(r.after)) ->
                              LowerBound(StatsOf(r.after))
                         [] OTHER -> UpperBound(StatsOf(r.after))

\* C23: MovingStdev, row by row across the batches: a null passes through
\* as null and is not inserted; a non-null value is inserted as it came,
\* and once the window holds at least 3 samples the output is the value if
\* it lies within mean -/+ n*std of the window with the value in it, else
\* the nearer bound (remove false) or null (remove true).
C23_MovingStdevRowByRow ==
    sdKind = "MovingStdev" =>
        /\ \A i \in DOMAIN wfOut :
              /\ StdevRowAsSpecified(wfOut[i])
              /\ wfOut[i].before = IF i = 1 THEN <<>> ELSE wfOut[i - 1].after
        /\ wfOut # <<>> => wfData.v = wfOut[Len(wfOut)].after

\* Over several batches a filter passed a null through, returned a value in
\* range of a window of three and replaced one out of range.
C23_Witness ==
    /\ sdKind = "MovingStdev" /\ wfCalls >= 2
    /\ \E i, j, k \in DOMAIN wfOut :
          /\ IsNa(wfOut[i].in)
          /\ Len(wfOut[j].after) >= 3 /\ ~IsNa(wfOut[j].in)
          /\ wfOut[j].out = wfOut[j].in
          /\ Len(wfOut[k].after) >= 3 /\ ~IsNa(wfOut[k].in)
          /\ wfOut[k].out # wfOut[k].in

RECURSIVE SumAt(_, _)
\* The sum of the numbers of a column at the rows I.
SumAt(col, I) ==
    IF I = {} THEN 0
    ELSE LET i == CHOOSE i \in I : TRUE IN col[i][1] + SumAt(col, I \ {i})

\* C24: BatchAverage on a batch with at least one row returns exactly one
\* row, with the batch's last timestamp and, per value column, the mean of
\* exactly the column's non-null values, or null when it has none; the
\* result is the same on every call, the filter keeps nothing.
C24_BatchAverageOneRow ==
    (sdKind = "BatchAverage" /\ sdCalls >= 1 /\ sdIn # <<>>) =>
        /\ sdOut.kind = "frame"
        /\ Len(sdOut.rows) = 1
        /\ sdOut.rows[1].t = sdIn[Len(sdIn)].t
        /\ \A k \in {"a", "b"} :
              LET col == Column(sdIn, k)
                  I == {i \in DOMAIN col : col[i] # NullCell}
              IN  sdOut.rows[1][k] =
                      IF I = {} THEN NullCell
                      ELSE <<SumAt(col, I), Cardinality(I)>>

\* A second call on a batch of three rows with a null among the values of
\* one column and nothing but nulls in the other.
C24_Witness ==
    /\ sdKind = "BatchAverage" /\ sdCalls >= 2 /\ Len(sdIn) = 3
    /\ Len(DropNa(Column(sdIn, "a"))) = 2
    /\ DropNa(Column(sdIn, "b")) = <<>>
    /\ sdOut.rows[1].a = <<7, 2>>

(***************************************************************************)
(* One Accumulate filter alone, of every max_length from 1: batch after    *)
(* batch of every size, and callers that write into what they got.         *)
(***************************************************************************)
InitAccumulateSpec ==
    /\ InitRegistry
    /\ InitSensorsUnbuilt
    /\ InitWorkers
    /\ InitFanout
    /\ InitPipeline
    /\ InitRead
    /\ InitWindow
    /\ InitStats
    /\ InitConsumption
    /\ InitConsumptionFrame
    /\ InitGate
    /\ InitCopies
    /\ InitTCPRead
    /\ fMgr = "simple"
    /\ \E max \in Capacities : InitAccumulateWith(max)

NextAccumulate ==
    \/ \E d \in IncomingSizes : AccumulateProcess(d)
    \/ ReturnedBatchMutated

SpecAccumulate == InitAccumulateSpec /\ [][NextAccumulate]_vars

\* The rows of a batch as they were returned, whatever was written into
\* them since.
AsReturned(rows) == [i \in DOMAIN rows |-> IF rows[i] < 0 THEN 0 - rows[i]
                                           ELSE rows[i]]

\* C25: an Accumulate filter with max_length >= 1 never returns a batch of
\* more than max_length rows, whatever the sizes of the batches it gets.
C25_ReturnsAtMostMaxLength ==
    (acMax >= 1 /\ acCase # "none") => Len(acRet) <= acMax

\* A batch longer than max_length was given while rows were pending.
C25_Witness ==
    /\ acCase # "none" /\ acBefore # <<>>
    /\ Len(acIn) > acMax /\ Len(acRet) = acMax

\* C26: when pending + incoming rows >= 2 * max_length the pending rows are
\* dropped, none is left, and the returned batch is the last max_length
\* rows of the incoming batch in order, exactly max_length rows.
C26_OverlongKeepsTail ==
    /\ acCalls >= 1 =>
          (acCase = "overlong" <=> Len(acBefore) + Len(acIn) >= 2 * acMax)
    /\ acCase = "overlong" =>
          /\ acOld = <<>>
          /\ Len(acRet) = acMax
          /\ AsReturned(acRet) =
                [i \in 1 .. acMax |-> acIn[Len(acIn) - acMax + i]]

\* Pending rows were dropped by a batch longer than max_length.
C26_Witness ==
    /\ acCase = "overlong" /\ acBefore # <<>>
    /\ Len(acIn) > acMax /\ acMax >= 2

\* C27: when pending + incoming rows < max_length the incoming batch is
\* appended to the pending rows and the returned batch is all of them, old
\* rows first, pending + incoming rows in all; writing into the returned
\* batch leaves the pending rows as they are.
C27_ShortBatchAccumulates ==
    /\ acCalls >= 1 =>
          (acCase = "fits" <=> Len(acBefore) + Len(acIn) < acMax)
    /\ acCase = "fits" =>
          /\ acOld = acBefore \o acIn
          /\ AsReturned(acRet) = acBefore \o acIn
          /\ Len(acRet) = Len(acBefore) + Len(acIn)

\* The caller wrote into a returned batch made of old and new rows.
C27_Witness ==
    /\ acCase = "fits" /\ acBefore # <<>> /\ acIn # <<>>
    /\ acRet[1] < 0 /\ acOld[1] > 0

InitConsumptionSpec ==
    /\ InitRegistry
    /\ InitSensorsUnbuilt
    /\ InitWorkers
    /\ InitFanout
    /\ InitPipeline
    /\ InitRead
    /\ InitWindow
    /\ InitStats
    /\ InitAccumulate
    /\ InitConsumptionFrame
    /\ InitGate
    /\ InitCopies
    /\ InitTCPRead
    /\ fMgr = "simple"
    /\ \E ft \in FrontTails, methods \in Methods, multiple \in Multiples,
          columns \in ColumnCounts :
          InitConsumptionWith(ft, methods, multiple, columns)

NextConsumption ==
    \/ \E rows \in RowsAfter(bcNow, MaxRows) : ConsumptionProcess(rows)

SpecConsumption == InitConsumptionSpec /\ [][NextConsumption]_vars

\* The tail samples of a full window are no lower than its front samples.
StepUp(w) ==
    MinLevel(TailOf(w, bcTail)) >= MaxLevel(FrontOf(w, bcFront))

\* The median of the tail is at least the multiple of the median of the
\* front.
DifferenceHolds(w) ==
    ProductAtLeast(Median(TailOf(w, bcTail)), Median(FrontOf(w, bcFront)),
                   bcMultiple)

\* Every timestamp of the window is within [start_time, end_time] of its day.
AllInTimeRange(dt) ==
    \A i \in 1 .. Len(dt) :
        StartTime <= TimeOfDay(dt[i]) /\ TimeOfDay(dt[i]) <= EndTime

\* C29: with methods = ["difference"], a non-null sample that leaves the
\* window full is a feed-add event exactly when min(tail) >= max(front) and
\* median(tail) >= difference_multiple * median(front), whatever the signs
\* of the samples; a sample that leaves the window short is no event.
C29_DifferenceEvent ==
    (bcUseDifference /\ ~bcUseTime) =>
        \A i \in 1 .. Len(bcTrace) :
            LET e == bcTrace[i]
            IN  IF Len(e.data) = bcFront + bcTail
                THEN (e.kind = "add") <=> (StepUp(e.data)
                                           /\ DifferenceHolds(e.data))
                ELSE e.kind # "add"

\* C30: with "time" in methods, a non-null sample that leaves the window
\* full is a feed-add event exactly when the step-up condition holds, the
\* difference condition holds if it is enabled, and every timestamp of the
\* window is within [start_time, end_time].
C30_TimeEvent ==
    bcUseTime =>
        \A i \in 1 .. Len(bcTrace) :
            LET e == bcTrace[i]
            IN  Len(e.data) = bcFront + bcTail =>
                    ((e.kind = "add") <=>
                        /\ StepUp(e.data)
                        /\ bcUseDifference => DifferenceHolds(e.data)
                        /\ AllInTimeRange(e.dt))

\* The median of the tail samples of a window, doubled as the levels are.
TailMedian(w) == Twice(Median(TailOf(w, bcTail)))

\* C31: at a sample detected as a feed-add event the filter emits
\* remain - lowest_record, once, then has remain and lowest_record both at
\* the median of the tail samples and the last export at the sample's
\* timestamp; no periodic export is made for that sample.
C31_AddEventResets ==
    \A i \in 1 .. Len(bcTrace) :
        LET e == bcTrace[i]
        IN  e.kind = "add" =>
                /\ e.emitted = <<e.remain - e.lowest>>
                /\ e.remainAfter = TailMedian(e.data)
                /\ e.lowestAfter = TailMedian(e.data)
                /\ e.lastAfter = {e.at}

\* A feed-add event found the level below the reference level and moved
\* both to another level.
C31_Witness ==
    \E i \in 1 .. Len(bcTrace) :
        /\ bcTrace[i].kind = "add"
        /\ bcTrace[i].lowest < bcTrace[i].remain
        /\ bcTrace[i].remainAfter # bcTrace[i].remain

\* C32: a non-null sample that leaves the window full and is no feed-add
\* event emits remain - lowest_record and sets remain to lowest_record and
\* the last export to its timestamp when the column has no export yet or
\* export_time_duration has passed since the last one; otherwise it emits
\* nothing and changes only lowest_record and the windows.  A sample that
\* leaves the window short emits nothing.
C32_PeriodicExport ==
    \A i \in 1 .. Len(bcTrace) :
        LET e == bcTrace[i]
            due == \/ e.last = {}
                   \/ \E l \in e.last : e.at >= l + ExportDuration
            low == IF 2 * e.data[Len(e.data)][1] <= e.before
                   THEN 2 * e.data[Len(e.data)][1] ELSE e.before
        IN  /\ Len(e.data) < bcFront + bcTail => e.emitted = <<>>
            /\ (Len(e.data) = bcFront + bcTail /\ e.kind # "add") =>
                  IF due
                  THEN /\ e.emitted = <<e.remain - low>>
                       /\ e.remainAfter = low
                       /\ e.lowestAfter = low
                       /\ e.lastAfter = {e.at}
                  ELSE /\ e.emitted = <<>>
                       /\ e.remainAfter = e.remain
                       /\ e.lowestAfter = low
                       /\ e.lastAfter = e.last

\* C37: lowest_record never exceeds remain, and no emitted consumption is
\* negative, whatever batches the filter was given.
C37_LowestAtMostRemain ==
    /\ bcStatus = "ready" => bcLowest <= bcRemain
    /\ \A i \in 1 .. Len(bcTrace) :
           \A j \in 1 .. Len(bcTrace[i].emitted) : bcTrace[i].emitted[j] >= 0

\* A periodic export emitted a consumption above zero, and the level has
\* gone below the reference level since.
C37_Witness ==
    /\ bcStatus = "ready" /\ bcLowest < bcRemain
    /\ \E i \in 1 .. Len(bcTrace) :
           /\ bcTrace[i].kind = "export"
           /\ bcTrace[i].emitted[1] > 0

(***************************************************************************)
(* The consumption filter on a frame of two value columns, one call.       *)
(***************************************************************************)
InitConsumptionFrameSpec ==
    /\ InitRegistry
    /\ InitSensorsUnbuilt
    /\ InitWorkers
    /\ InitFanout
    /\ InitPipeline
    /\ InitRead
    /\ InitWindow
    /\ InitStats
    /\ InitAccumulate
    /\ InitConsumption
    /\ InitGate
    /\ InitCopies
    /\ InitTCPRead
    /\ fMgr = "simple"
    /\ \E batch \in FramesFrom(1, MaxBatchRows) :
          InitConsumptionFrameWith(batch)

NextConsumptionFrame ==
    \/ ConsumptionFrameProcess

SpecConsumptionFrame ==
    InitConsumptionFrameSpec /\ [][NextConsumptionFrame]_vars

\* C33: the returned frame has one row at most for a timestamp, its rows go
\* up by timestamp, every value emitted in the call is in the row of its
\* timestamp under its column, and a cell is null where its column emitted
\* nothing at the row's timestamp.
C33_OneRowPerTimestamp ==
    cfOutcome = "returned" =>
        /\ \A i, j \in DOMAIN cfOut : i < j => cfOut[i][1] < cfOut[j][1]
        /\ \A n \in DOMAIN cfEmitted :
               \E i \in DOMAIN cfOut :
                   /\ cfOut[i][1] = cfEmitted[n][2]
                   /\ cfOut[i][cfEmitted[n][1] + 1] = <<cfEmitted[n][3]>>
        /\ \A i \in DOMAIN cfOut : \A k \in FrameColumns :
               (\A n \in DOMAIN cfEmitted :
                    ~(cfEmitted[n][1] = k /\ cfEmitted[n][2] = cfOut[i][1]))
               => cfOut[i][k + 1] = NullCell

\* C36: BatchStdev leaves a null cell null, with remove false and true, and
\* returns a value within the bounds of its column as it came.
C36_NullStaysNull ==
    (sdKind = "BatchStdev" /\ sdOut.kind = "frame") =>
        \A k \in {"a", "b"} : \A i \in DOMAIN sdIn :
            LET c == sdIn[i][k]
                vals == DropNa(Column(sdIn, k))
            IN  /\ IsNa(c) => IsNa(sdOut.rows[i][k])
                /\ (Len(vals) >= 3 /\ InRange(c, StatsOf(vals), sdN))
                       => sdOut.rows[i][k] = c

\* The rows s begin with the rows p.
StartsWith(s, p) == Len(p) <= Len(s) /\ SubSeq(s, 1, Len(p)) = p

\* A call of process that follows a call which returned an under-full batch.
AfterUnderFull == acCalls' = acCalls + 1 /\ acCase = "fits"

\* C38 as stated: after an under-full batch, an under-full batch is the one
\* returned before followed by the incoming rows, and a batch of max_length
\* rows begins with the pending rows.
C38_PendingReturnedAgain ==
    [][AfterUnderFull =>
          /\ acCase' = "fits" => AsReturned(acRet') = AsReturned(acRet) \o acIn'
          /\ Len(acRet') = acMax => StartsWith(acRet', acOld)]_vars

\* C38, amended: after an under-full batch the pending rows are the rows
\* that batch returned; the next under-full batch is that batch followed by
\* the incoming rows, and the batch of a call that fills the buffer
\* (max_length <= pending + incoming < 2 * max_length) begins with the
\* pending rows; a call with pending + incoming >= 2 * max_length drops
\* them, and none of them is in its batch.
C38_PendingKeptUntilFilled ==
    [][AfterUnderFull =>
          /\ acOld = AsReturned(acRet)
          /\ acCase' = "fits" => AsReturned(acRet') = AsReturned(acRet) \o acIn'
          /\ acCase' = "fills" => StartsWith(acRet', acOld)
          /\ acCase' = "overlong" =>
                \A i \in DOMAIN acRet' : \A j \in DOMAIN acOld :
                    acRet'[i] # acOld[j]]_vars

\* Two rows were pending after under-full batches and came back at the head
\* of a batch of three rows.
C38_Witness ==
    /\ acCase = "fills" /\ acMax = 3 /\ Len(acBefore) = 2
    /\ StartsWith(acRet, acBefore)

(***************************************************************************)
(* The gate sensor alone: any messages and is_adding_feed calls, MaxFed of *)
(* them in all.                                                            *)
(***************************************************************************)
InitGateSpec ==
    /\ InitRegistry
    /\ InitSensorsUnbuilt
    /\ InitWorkers
    /\ InitFanout
    /\ InitPipeline
    /\ InitRead
    /\ InitWindow
    /\ InitStats
    /\ InitAccumulate
    /\ InitConsumption
    /\ InitConsumptionFrame
    /\ InitCopies
    /\ InitTCPRead
    /\ fMgr = "simple"
    /\ InitGate

NextGate ==
    \/ \E msg \in Payloads : GateReadAndProcess(msg)
    \/ IsAddingFeed

SpecGate == InitGateSpec /\ [][NextGate]_vars

AnyOtherOrTrue(e) ==
    \/ e.op = "is_adding_feed" /\ e.result = "True"
    \/ e.op \notin {"Closed", "is_adding_feed"}

\* A message of the gate other than "Closed", or an is_adding_feed call that
\* returned True.
GateOtherOrTrue(e) ==
    \/ e.op = "is_adding_feed" /\ e.result = "True"
    \/ e.op \in GateMessages \ {"Closed"}

\* The call i of is_adding_feed is owed to the message j: "Closed" received
\* while the status was OPEN, with none of the steps in `breaking` since.
OwedTo(i, j, breaking(_)) ==
    /\ j < i
    /\ gtLog[j].op = "Closed" /\ gtLog[j].status = "OPEN"
    /\ \A k \in j + 1 .. i - 1 : ~breaking(gtLog[k])

\* A "Closed" received while the status was not OPEN leaves the flag.
ClosedNotAfterOpen ==
    \A i \in DOMAIN gtLog :
        (gtLog[i].op = "Closed" /\ gtLog[i].status # "OPEN") =>
            gtLog[i].addingAfter = gtLog[i].adding

InitCopiesSpec ==
    /\ InitRegistry
    /\ InitSensorsUnbuilt
    /\ InitWorkers
    /\ InitFanout
    /\ InitPipeline
    /\ InitRead
    /\ InitWindow
    /\ InitStats
    /\ InitAccumulate
    /\ InitConsumption
    /\ InitConsumptionFrame
    /\ InitGate
    /\ InitTCPRead
    /\ fMgr = "simple"
    /\ \E v \in Values : InitCopiesWith(v)

NextCopies ==
    \/ NotifyWithCopies
    \/ \E p \in CopyPipelines, way \in FilterWays : CopyFilterProcess(p, way)
    \/ \E e \in CopyExporters : CopyExport(e)

SpecCopies == InitCopiesSpec /\ [][NextCopies]_vars

\* Only pipeline p has written into the frame.
OwnMarksOnly(frame, p) == \A i \in DOMAIN frame.marks : frame.marks[i] = p

\* C39: what a filter of one pipeline writes into its batch is never in the
\* batch of another pipeline of the sensor, nor in the batch the sensor's
\* exporters are given, in whatever order pipelines and exporters run.
C39_PipelinesOwnTheirCopy ==
    /\ cpHeap[RawFrame].marks = <<>>
    /\ \A e \in CopyExporters :
           \A i \in DOMAIN cpSeen.exporter[e] :
               cpSeen.exporter[e][i].marks = <<>>
    /\ \A p \in CopyPipelines :
           /\ cpPc = "notified" =>
                 /\ OwnMarksOnly(cpHeap[cpRef[p]], p)
                 /\ Len(cpHeap[cpRef[p]].marks) = cpSteps[p]
           /\ \A i \in DOMAIN cpSeen.pipeline[p] :
                 OwnMarksOnly(cpSeen.pipeline[p][i], p)

\* Two pipelines have written into their batches before an exporter of the
\* sensor was given the batch.
C39_Witness ==
    /\ \A p \in CopyPipelines :
           cpSteps[p] >= 1 /\ cpRef[p] = FrameGiven(p)
    /\ \E e \in CopyExporters : cpSeen.exporter[e] # <<>>
    /\ \E e \in CopyExporters : cpSeen.exporter[e] = <<>>

(***************************************************************************)
(* The sensors of one TCP host reading registers.  The event loop runs     *)
(* every task that is ready, and a device that answers does answer in the  *)
(* end with a response.                                                    *)
(***************************************************************************)
InitTCPReadSpec ==
    /\ InitRegistry
    /\ InitSensorsUnbuilt
    /\ InitWorkers
    /\ InitFanout
    /\ InitPipeline
    /\ InitRead
    /\ InitWindow
    /\ InitStats
    /\ InitAccumulate
    /\ InitConsumption
    /\ InitConsumptionFrame
    /\ InitGate
    /\ InitCopies
    /\ fMgr = "simple"
    /\ \E devices \in [Sensors -> Devices] : InitTCPReadWith(devices)

NextTCPRead ==
    \/ \E s \in Sensors : TCPBeginRead(s)
    \/ \E s \in Sensors : TCPLockGranted(s)
    \/ \E s \in Sensors, value \in {Response, ExceptionResponse} :
          TCPAnswer(s, value)

SpecTCPRead ==
    /\ InitTCPReadSpec
    /\ [][NextTCPRead]_vars
    /\ \A s \in Sensors :
          /\ WF_vars(TCPLockGranted(s))
          /\ WF_vars(TCPAnswer(s, Response))

\* A register read of sensor s is under way.
Reading(s) == tcPc[s] \in {"waiting", "exchange"}

\* C40: a TCP register read never returns an exception response, and every
\* register read of a sensor whose device answers completes, whatever the
\* devices of the other sensors of the host answer.
C40_EveryReadCompletes ==
    /\ [](\A s \in Sensors : tcReturned[s] # ExceptionResponse)
    /\ \A s \in Sensors :
          (tcDevice[s] = "answers" /\ Reading(s)) ~> ~Reading(s)

\* The same when every device behind the host answers.
AllAnswer_EveryReadCompletes ==
    \A s \in Sensors :
        ((\A t \in Sensors : tcDevice[t] = "answers") /\ Reading(s))
            ~> ~Reading(s)

\* What is returned is a response.
TCPReturnsResponses ==
    \A s \in Sensors : tcReturned[s] \in {None, Response}

\* A sensor whose device answers waits for the lock while the sensor holding
\* it has been refused MaxTries times.
TCPStarved ==
    \E s, t \in Sensors :
        /\ tcDevice[s] = "answers" /\ tcPc[s] = "waiting"
        /\ tcDevice[t] = "refuses" /\ tcPc[t] = "exchange"
        /\ tcTries[t] = MaxTries

====
